---------------------------- MODULE Spec2Model ----------------------------
(***************************************************************************)
(* BioSim (wito/BioSim): the annual-cycle simulation engine.               *)
(*                                                                         *)
(* The module models Simulation::step (BioSim.cpp) with the Cell and       *)
(* Animal operations it calls (Map.cpp, Animal.cpp) as a state machine.    *)
(* One action is one iteration of one of step()'s loops, so that the order *)
(* of the four passes and of the turns inside them is observable.          *)
(*                                                                         *)
(* Numbers.  Weights and feed are integers; the parameters below are       *)
(* chosen so that every product the code forms (sigma*w, beta*f,           *)
(* zeta*v_fod, alpha*(max-feed)) is an integer for the first two simulated *)
(* years.  func_q, the logistic 1/(1+exp(d)), is rounded to eighths and    *)
(* kept strictly inside (0,1); a fitness is therefore a number of          *)
(* 512ths.  A uniform draw from [0,1) is a number of 1024ths.              *)
(*                                                                         *)
(* Pointers.  An Animal* is an address in Addr; a Cell* is the cell's      *)
(* coordinate pair, the null pointer is NULL.  Memory that has been        *)
(* deleted keeps its last contents while a dangling pointer to it exists.  *)
(***************************************************************************)
EXTENDS Integers, Sequences, FiniteSets, TLC

(***************************************************************************)
(* Bounds of the model.                                                    *)
(***************************************************************************)
\* Size of the pool of Animal addresses (new Animal draws from it).
MaxAnimals == 3
\* Largest number of animals the population files place (insertAnimal calls that succeed).
MaxLoad == 3
\* Last simulated year (SluttAar); the run starts in year_begin.
year_end == 1

year_begin == 1

ANIMAL_INV == -1

Addr == 1..MaxAnimals

\* The null Cell pointer.
NULL == <<>>

(***************************************************************************)
(* Map: terrain types, geography, neighbours.                              *)
(***************************************************************************)
\* Parameter-file values read by Map::Map / Map::initArch (cells.par).
cellPar == [alphaN |-> 1, alphaD |-> 2, fmax_sav |-> 8, fmax_jngl |-> 12]

\* ArchCell(name, alpha, maxfeed, live); alpha is the fraction alphaN/alphaD.
ArchCell(_n, _aN, _aD, _mf, _l) ==
  [name |-> _n, alphaN |-> _aN, alphaD |-> _aD, maxfeed |-> _mf, live |-> _l]

\* Map::initArch: the five built-in terrain types.
archetypes ==
  [ch \in {"H", "S", "J", "F", "O"} |->
     CASE ch = "H" -> ArchCell("H", 0, 1, 0, FALSE)
       [] ch = "S" -> ArchCell("S", cellPar.alphaN, cellPar.alphaD, cellPar.fmax_sav, TRUE)
       [] ch = "J" -> ArchCell("J", 1, 1, cellPar.fmax_jngl, TRUE)
       [] ch = "F" -> ArchCell("F", 0, 1, 0, FALSE)
       [] ch = "O" -> ArchCell("O", 0, 1, 0, TRUE)]

\* The .geo file: rows of terrain codes, row y = 0 first.
geo == << <<"J", "O">>, <<"H", "F">> >>

_rows == Len(geo)
_cols == Len(geo[1])

\* The cells Map::init creates, each named by its coordinates (x, y).
Cells == {<<x, y>> : x \in 0..(_cols - 1), y \in 0..(_rows - 1)}

\* An unsigned int (32 bits), held as its two 16-bit halves.
Word(_hi, _lo) == [hi |-> _hi, lo |-> _lo]

\* `a < b` on two unsigned ints.
WordLess(a, b) == a.hi < b.hi \/ (a.hi = b.hi /\ a.lo < b.lo)

\* coordPack(x, y) = (x << 0x10) + y in 32 bits: the shift keeps the low half
\* of x as the high half of the word, the sum adds the high half of y to it
\* (modulo 2^16) and has the low half of y as its low half.
coordPack(x, y) == Word(((x % 65536) + (y \div 65536)) % 65536, y % 65536)

\* An unpacking that masks the word with 0xFF.
coordUnpack_byteMask(coord) == <<coord.hi, coord.lo % 256>>

\* coordUnpack(coord, x, y): x = coord >> 0x10, y = coord & 0xFFFF.
coordUnpack(coord) == <<coord.hi, coord.lo>>

\* A coordPack / coordUnpack call.
CoordCall(_x, _y, _coord, _x_out, _y_out) ==
  [x |-> _x, y |-> _y, coord |-> _coord, x_out |-> _x_out, y_out |-> _y_out]

\* No such call made.
NoCoordCall == CoordCall(0, 0, Word(0, 0), 0, 0)

\* The cells in ascending order of their packed address: x outermost.
fullAdrMapBuilt_packed ==
  [k \in 1..(_rows * _cols) |-> <<(k - 1) \div _rows, (k - 1) % _rows>>]

\* Map::_fullAdrMap as Map::init leaves it: the cells pushed in the order of
\* its loops, y outermost and x innermost.
fullAdrMapBuilt ==
  [k \in 1..(_rows * _cols) |-> <<(k - 1) % _cols, (k - 1) \div _cols>>]

\* Map::mapMap(true): _fullAdrMap is returned as it is.
mapMap_all(full) == full

\* The terrain type of a cell (Cell::archetype).
archetype(c) == archetypes[geo[c[2] + 1][c[1] + 1]]

\* Map::at(x, y): the error-checked lookup.
at(x, y) == IF x >= _cols \/ y >= _rows THEN NULL ELSE <<x, y>>

\* Map::candidatesAt(x, y): left, up, right, down.
candidatesAt(x, y) ==
  << IF x = 0 THEN at(x, y) ELSE at(x - 1, y),
     IF y = 0 THEN at(x, y) ELSE at(x, y - 1),
     IF x = _cols THEN at(x, y) ELSE at(x + 1, y),
     IF y = _rows THEN at(x, y) ELSE at(x, y + 1) >>

\* Cell::neighbours(), as set once by Map::init.
neighbours(c) == candidatesAt(c[1], c[2])

\* A cell that lets an animal in whatever its terrain.
addAnimal_always(c) == TRUE

\* Cell::addAnimal(): whether an animal can enter the cell.
addAnimal(c) == archetype(c).live

\* The participating cells (the members of Map::_adrMap).
LiveCells == {c \in Cells : archetype(c).live}

\* Cell::Cell(ArchCell*): a new cell holds its terrain's maximum feed.
CellInit(c) == archetype(c).maxfeed

\* A regrowth by alpha times the maximum rather than alpha times what is missing.
Arch_regrow_fromZero(t, f) == f + (t.alphaN * t.maxfeed) \div t.alphaD

\* Cell::regrow on a feed value, for a cell of terrain type t.
Arch_regrow(t, f) == f + (t.alphaN * (t.maxfeed - f)) \div t.alphaD

\* Cell::regrow on the feed value of cell c.
regrow(c, f) == Arch_regrow(archetype(c), f)

\* A graze that hands out the feed and leaves the cell's stock as it was.
graze_noDecrement(f, ammount) == IF f >= ammount THEN <<ammount, f>> ELSE <<f, f>>

\* A graze that grants the whole amount whatever the cell holds.
graze_always(f, ammount) == <<ammount, IF f >= ammount THEN f - ammount ELSE 0>>

\* Cell::graze(ammount) on a feed value: <<granted, remaining feed>>.
graze(f, ammount) == IF f >= ammount THEN <<ammount, f - ammount>> ELSE <<f, 0>>

(***************************************************************************)
(* Species.                                                                *)
(***************************************************************************)
\* The species.par files.  A fraction p is given as pN/pD; F and
\* DeltaPhiMax default to ANIMAL_INV when the file does not give them.
\* DeltaPhiMax is a number of 512ths, like a fitness.
speciesPar ==
  [n \in {"B", "R", "W"} |->
     CASE n = "B" ->
            [v_fod |-> 4, betaN |-> 1, betaD |-> 1, sigmaN |-> 1, sigmaD |-> 2, v_min |-> 3,
             a_halv |-> 2, phi_alder |-> 1, v_halv_under |-> 6, phi_under |-> 1,
             v_halv_over |-> 40, phi_over |-> 1, muN |-> 1, muD |-> 1,
             gammaN |-> 1, gammaD |-> 1, zetaN |-> 1, zetaD |-> 1,
             omegaN |-> 1, omegaD |-> 2, F |-> 8, DeltaPhiMax |-> ANIMAL_INV]
       [] n = "R" ->
            [v_fod |-> 4, betaN |-> 1, betaD |-> 1, sigmaN |-> 1, sigmaD |-> 2, v_min |-> 3,
             a_halv |-> 3, phi_alder |-> 1, v_halv_under |-> 4, phi_under |-> 1,
             v_halv_over |-> 40, phi_over |-> 1, muN |-> 1, muD |-> 1,
             gammaN |-> 1, gammaD |-> 1, zetaN |-> 1, zetaD |-> 1,
             omegaN |-> 1, omegaD |-> 2, F |-> ANIMAL_INV, DeltaPhiMax |-> 256]
       [] n = "W" ->
            [v_fod |-> 4, betaN |-> 1, betaD |-> 1, sigmaN |-> 1, sigmaD |-> 2, v_min |-> 3,
             a_halv |-> 2, phi_alder |-> 1, v_halv_under |-> 6, phi_under |-> 1,
             v_halv_over |-> 40, phi_over |-> 1, muN |-> 1, muD |-> 1,
             gammaN |-> 1, gammaD |-> 1, zetaN |-> 1, zetaD |-> 1,
             omegaN |-> 1, omegaD |-> 2, F |-> ANIMAL_INV, DeltaPhiMax |-> 128]]

\* Simulation::species: the ArtParameter species, then BytteParameter, then
\* RovdyrParameter (Simulation::init pushes _prey and _pred last).
species == <<"W", "B", "R">>

\* A Species object: the members Species::init reads and sets.
SpeciesObject(_F, _DeltaPhiMax, _name, _predatory) ==
  [F |-> _F, DeltaPhiMax |-> _DeltaPhiMax, name |-> _name, predatory |-> _predatory]

\* No Species object is being initialised.
NoSpecies == SpeciesObject(ANIMAL_INV, ANIMAL_INV, "", FALSE)

\* Species::init: F present makes a herbivore, else DeltaPhiMax a predator.
predator(s) == speciesPar[s].F = ANIMAL_INV /\ speciesPar[s].DeltaPhiMax # ANIMAL_INV

\* Simulation::genus(name): the species with that name, or no species ("").
genus(typeName) == IF \E i \in 1..Len(species) : species[i] = typeName THEN typeName ELSE ""

\* One unit of fitness: fitness values are numbers of FitOne-ths.
FitOne == 8 * 8 * 8
\* One unit of a draw: draws are numbers of DrawOne-ths in [0, DrawOne).
DrawOne == 2 * FitOne
\* The draws the model supplies: the least and the greatest of [0,1).
DrawSet == {0, DrawOne - 1}

\* 1/(1+exp(d)) in eighths.
Logistic(d) ==
  IF d <= -2 THEN 7 ELSE IF d = -1 THEN 6 ELSE IF d = 0 THEN 4 ELSE IF d = 1 THEN 2 ELSE 1

\* func_q(x, x_half, phi, pos), in eighths.
func_q(x, x_half, phi, pos) == Logistic((IF pos THEN 1 ELSE -1) * phi * (x - x_half))

\* A fitness without the cut at the minimum weight.
Species_fitness_noMin(s, weight, age) ==
  LET p == speciesPar[s] IN
  func_q(age, p.a_halv, p.phi_alder, TRUE)
    * func_q(weight, p.v_halv_under, p.phi_under, FALSE)
    * func_q(weight, p.v_halv_over, p.phi_over, TRUE)

\* Species::fitness(weight, age), in FitOne-ths.
Species_fitness(s, weight, age) ==
  LET p == speciesPar[s] IN
  IF weight < p.v_min THEN 0
  ELSE func_q(age, p.a_halv, p.phi_alder, TRUE)
       * func_q(weight, p.v_halv_under, p.phi_under, FALSE)
       * func_q(weight, p.v_halv_over, p.phi_over, TRUE)

\* Species::weightloss(weight) = sigma * weight.
weightloss(s, weight) == (speciesPar[s].sigmaN * weight) \div speciesPar[s].sigmaD

\* Species::birthloss() = zeta * v_fod.
birthloss(s) == (speciesPar[s].zetaN * speciesPar[s].v_fod) \div speciesPar[s].zetaD

\* Species::birthweight().
birthweight(s) == speciesPar[s].v_fod

\* A breeding condition that forgets the birth loss: the minimum weight is enough.
canBreed_minOnly(s, weight) == weight >= speciesPar[s].v_min

\* Species::canBreed(weight).
canBreed(s, weight) == weight >= speciesPar[s].v_min + birthloss(s)

\* Species::willWander(beastPhi) with draw u: u < mu * beastPhi.
willWander(s, beastPhi, u) ==
  u * speciesPar[s].muD * FitOne < DrawOne * speciesPar[s].muN * beastPhi

\* Species::die(beastPhi): certain for fitness <= 0 (no draw), else
\* u < omega * (1 - beastPhi).
Species_die(s, beastPhi, u) ==
  IF beastPhi <= 0 THEN TRUE
  ELSE u * speciesPar[s].omegaD * FitOne
         < DrawOne * speciesPar[s].omegaN * (FitOne - beastPhi)

\* Species::birthChance(beast, largeN) compared with draw u:
\* u < fitness * gamma * (largeN - 1).
birthChance(s, beastPhi, largeN, u) ==
  u * speciesPar[s].gammaD * FitOne
    < DrawOne * beastPhi * speciesPar[s].gammaN * (largeN - 1)

\* A catch chance that is 1 between equals: only a fitter prey escapes.
eat_tieWins(phi_pred, phi_prey, delta_phi_max, u) ==
  LET delta_phi == phi_pred - phi_prey IN
  IF phi_pred < phi_prey THEN FALSE
  ELSE IF delta_phi_max > delta_phi /\ delta_phi > 0
       THEN u * delta_phi_max < DrawOne * delta_phi
       ELSE TRUE

\* Animal::eat: the catch chance compared with draw u.
eat(phi_pred, phi_prey, delta_phi_max, u) ==
  LET delta_phi == phi_pred - phi_prey IN
  IF phi_pred <= phi_prey THEN FALSE
  ELSE IF delta_phi_max > delta_phi /\ delta_phi > 0
       THEN u * delta_phi_max < DrawOne * delta_phi
       ELSE TRUE


(***************************************************************************)
(* State.                                                                  *)
(***************************************************************************)
VARIABLES
  mapstream,     \* Map::init: what is left to read of the terrain codes of the .geo file
  coordCall,     \* a coordPack / coordUnpack call: its x and y, the packed word, the x and y unpacked
  param_reader_, \* a toolbox::ReadParameters: its tokens, the file being read, the target variables
  archetypesRead, \* Map::archetypes as Map::initSpec fills it from the cells.spec file
  _fullAdrMap,   \* Map::_fullAdrMap: every cell, in the order Map::init built them
  report,        \* the report files written last (.dat line, .dyr, .for, .pop)
  thisSpecies,   \* Species::init: the Species object being initialised (F, DeltaPhiMax, name, predatory)
  habitants,     \* Cell::habitants of every cell: [Cells -> SUBSET Addr]
  feed,          \* Cell::feed of every cell
  _adrMap,       \* Map::_adrMap: the participating cells, in their current order
  obj,           \* the Animal object at every address: isa, _vekt, _alder, _loci, _fitness
  animals,       \* Simulation::animals, the global population
  _year,         \* Simulation::_year
  pc,            \* where the program is: "mapinit", "init", "run", "age", ..., "done", "crashed"
  iter,          \* step(): the iterator over animals in the ageing loop (an address, or End)
  cells,         \* step(): the vector returned by mapMap()
  it2,           \* step(): the index into cells of the wander and of the breed loop
  inCell,        \* whether Cell::wander / the regrowth of cells[it2] is under way
  habitantsCopy, \* Cell::wander: the part of the copy still to be gone through
  spIdx,         \* Cell::breed: index of the species being bred in cells[it2]
  theseBeasts,   \* Cell::breed: the part of theseBeasts still to be gone through
  largeN,        \* Cell::breed: largeN
  retval,        \* Cell::breed: the newborns of the cell so far
  feedBeasts,    \* step(): the sorted and partitioned vector of the feeding loop
  fbiter,        \* step(): index into feedBeasts
  hist           \* history of the current year: what has been done to whom

vars == <<mapstream, coordCall, param_reader_, archetypesRead, thisSpecies, _fullAdrMap, report, habitants, feed, _adrMap, obj, animals, _year, pc, iter, cells, it2, inCell,
          habitantsCopy, spIdx, theseBeasts, largeN, retval, feedBeasts, fbiter, hist>>

\* The loop state of step(), for the actions that leave it alone.
loopVars == <<iter, cells, it2, inCell, habitantsCopy, spIdx, theseBeasts, largeN,
              retval, feedBeasts, fbiter>>

\* The end() iterator of animals.
End == MaxAnimals + 1

\* Animal::Animal(): the contents of memory that holds no animal.
Zombie == [isa |-> "", vekt |-> 0, alder |-> 0, loci |-> NULL, fitness |-> ANIMAL_INV]

\* The elements of a std::set<Animal*> in iteration order (ascending address).
RECURSIVE SetToSeq(_)
SetToSeq(S) ==
  IF S = {} THEN <<>>
  ELSE LET m == CHOOSE x \in S : \A y \in S : x <= y IN <<m>> \o SetToSeq(S \ {m})

\* The set of the elements of a vector.
Range(s) == {s[i] : i \in 1..Len(s)}

\* animals.begin(), and the successor of an iterator of animals.
SetBegin(S) == IF S = {} THEN End ELSE CHOOSE x \in S : \A y \in S : x <= y
SetNext(S, a) == SetBegin({x \in S : x > a})

\* The addresses operator new may return: those holding no living animal.
FreeAddr == Addr \ (animals \cup Range(retval))

(***************************************************************************)
(* Cell and Animal operations, on the objects o and the resident sets h.   *)
(***************************************************************************)
\* Cell::addAnimal(Animal*): the resident sets after the call (unchanged when refused).
addAnimalBeast(h, c, beast) ==
  IF ~archetype(c).live THEN h ELSE [h EXCEPT ![c] = @ \cup {beast}]

\* Cell::removeAnimal(Animal*).
removeAnimal(h, c, beast) == [h EXCEPT ![c] = @ \ {beast}]

\* A vector of the residents that holds each of them twice.
Cell_animals_twice(h, c) == SetToSeq(h[c]) \o SetToSeq(h[c])

\* Cell::animals(): the residents as a vector.
Cell_animals(h, c) == SetToSeq(h[c])

\* A variant that returns every resident, whatever its species.
cellMates_anySpecies(o, h, c, g) == SetToSeq({a \in h[c] : o[a].alder >= 0})

\* cellMates with breedersOnly set: only the residents of age >= 1.
cellMates_breedersOnly(o, h, c, g) == SetToSeq({a \in h[c] : o[a].isa = g /\ o[a].alder >= 1})

\* Cell::cellMates(genus, breedersOnly = false): the residents of that species.
cellMates(o, h, c, g) == SetToSeq({a \in h[c] : o[a].isa = g /\ o[a].alder >= 0})

\* A move that does not take the animal out of the cell it leaves.
moveTo_keepOld(o, h, a, destination) ==
  IF destination = NULL THEN <<o, h, FALSE>>
  ELSE IF archetype(destination).live
       THEN <<[o EXCEPT ![a].loci = destination], addAnimalBeast(h, destination, a), TRUE>>
       ELSE <<o, h, FALSE>>

\* A move that enters any existing cell, participating or not.
moveTo_anyTerrain(o, h, a, destination) ==
  IF destination = NULL THEN <<o, h, FALSE>>
  ELSE LET h1 == [h EXCEPT ![destination] = @ \cup {a}]
           h2 == IF o[a].loci # NULL /\ o[a].loci # destination
                 THEN [h1 EXCEPT ![o[a].loci] = @ \ {a}] ELSE h1
       IN <<[o EXCEPT ![a].loci = destination], h2, TRUE>>

\* Animal::moveTo(destination): <<objects, resident sets, success>>.
moveTo(o, h, a, destination) ==
  IF destination = NULL THEN <<o, h, FALSE>>
  ELSE IF archetype(destination).live
       THEN LET h1 == addAnimalBeast(h, destination, a)
                h2 == IF o[a].loci # NULL /\ o[a].loci # destination
                      THEN removeAnimal(h1, o[a].loci, a) ELSE h1
            IN <<[o EXCEPT ![a].loci = destination], h2, TRUE>>
       ELSE <<o, h, FALSE>>

\* Animal::Animal(type, location) constructed at address a: <<objects, resident sets>>.
Animal_new(o, h, a, type, location) ==
  LET o0 == [o EXCEPT ![a] = [isa |-> type, vekt |-> birthweight(type), alder |-> 0,
                               loci |-> NULL, fitness |-> ANIMAL_INV]]
      m  == moveTo(o0, h, a, location)
  IN <<[m[1] EXCEPT ![a].fitness = Species_fitness(type, birthweight(type), 0)], m[2]>>

\* Animal::fitness(): the value returned.
fitness(o, a) ==
  IF o[a].fitness = ANIMAL_INV THEN Species_fitness(o[a].isa, o[a].vekt, o[a].alder)
  ELSE o[a].fitness

\* Animal::fitness(): the objects after the call (the cache is filled).
fitnessCached(o, a) == [o EXCEPT ![a].fitness = fitness(o, a)]

\* Animal::adjust(alder, vekt).
adjust(o, a, alder, vekt) ==
  [o EXCEPT ![a].alder = alder, ![a].vekt = vekt, ![a].fitness = ANIMAL_INV]

\* An ageing that takes the weight loss and leaves the age as it was.
age_weightOnly(o, a) ==
  [o EXCEPT ![a].vekt = @ - weightloss(o[a].isa, @), ![a].fitness = ANIMAL_INV]

\* Animal::age().
age(o, a) ==
  [o EXCEPT ![a].alder = @ + 1, ![a].vekt = @ - weightloss(o[a].isa, @),
            ![a].fitness = ANIMAL_INV]

\* A fatten that leaves the cached fitness in place.
fatten_keepCache(o, a, delta_w) == [o EXCEPT ![a].vekt = @ + delta_w]

\* Animal::fatten(delta_w).
fatten(o, a, delta_w) == [o EXCEPT ![a].vekt = @ + delta_w, ![a].fitness = ANIMAL_INV]

\* A destructor that leaves the animal in its cell's resident set.
Animal_delete_stay(o, h, a) == h

\* Animal::~Animal(): the resident sets after the animal left its cell.  The
\* store isa = NULL is to an object whose lifetime ends: the memory keeps
\* contents a later use through a dangling pointer may or may not fault on.
Animal_delete(o, h, a) == IF o[a].loci # NULL THEN removeAnimal(h, o[a].loci, a) ELSE h

(***************************************************************************)
(* History of the year (not program state): who was aged, checked, moved,  *)
(* bred and fed, and what was removed.                                     *)
(***************************************************************************)
\* The last call recorded: what was called, on whom (and on whom else), with
\* which draw u, with which nrand(4) result n (for die(): how many draws it
\* consumed), and what it returned.
Op(_name, _who, _other, _u, _n, _ret) ==
  [name |-> _name, who |-> _who, other |-> _other, u |-> _u, n |-> _n, ret |-> _ret]

\* No call recorded.
NoOp == Op("", 0, 0, 0, 0, FALSE)

\* What the last step that made random checks took from the generator: the
\* kind of check, how many checks it made, how many drand() and nrand(4)
\* values it consumed, and the result of the (last) check.
Draws(_check, _checks, _drand, _nrand, _ok) ==
  [check |-> _check, checks |-> _checks, drand |-> _drand, nrand |-> _nrand, ok |-> _ok]

\* No check made yet.
NoDraws == Draws("", 0, 0, 0, FALSE)

\* How many values a check consumes that is supplied from the set S: none
\* when it is not asked for one (S is {0} then).
consumed(S) == IF S = {0} THEN 0 ELSE 1

\* The report files: the year they were written in, the line of the .dat
\* file, and the contents of the .dyr, .for and .pop files.
Report(_year_, _dat, _dyr, _for, _pop) ==
  [year |-> _year_, dat |-> _dat, dyr |-> _dyr, for |-> _for, pop |-> _pop]

\* Nothing written yet.
NoReport == Report(0, <<>>, <<>>, <<>>, <<>>)

\* The arguments of an insertAnimal call.
Asked(_name, _alder, _vekt, _x, _y) ==
  [name |-> _name, alder |-> _alder, vekt |-> _vekt, x |-> _x, y |-> _y]

\* No insertAnimal call recorded.
NoAnimal == Asked("", 0, 0, 0, 0)

\* A Cell::wander call in progress: the residents when it was entered, and
\* the animals whose wander() it has called so far, in order.
Visit(_start, _tried) == [start |-> _start, tried |-> _tried]

\* No Cell::wander call in progress.
NoVisit == Visit({}, <<>>)

\* A graze() call of a herbivore's turn: who fed, in which cell, how much it
\* asked for (F) and how much it was granted.
Grant(_who, _cell, _want, _got) == [who |-> _who, cell |-> _cell, want |-> _want, got |-> _got]

\* A word of the parameter file that `strm >> value_' cannot extract a value
\* from (not a number, or nothing left to read).
Unparsable == -1

\* PlainToken<T>: both constructors. Without a default, default_ and value_
\* are T(), here 0.
PlainToken(_has_default, _deflt) ==
  [list |-> FALSE, has_default_ |-> _has_default, default_ |-> _deflt, read_ |-> FALSE,
   value_ |-> _deflt, min_sz_ |-> 0, max_sz_ |-> 0, container_ |-> <<>>]

\* ListToken<T>: the constructor.
ListToken(_min_sz, _max_sz) ==
  [list |-> TRUE, has_default_ |-> FALSE, default_ |-> 0, read_ |-> FALSE,
   value_ |-> 0, min_sz_ |-> _min_sz, max_sz_ |-> _max_sz, container_ |-> <<>>]

\* parameters_ after the register_param / register_list_param calls of a
\* constructor: a parameter without default, one with a default, and a list
\* of one or two elements.
Registered ==
  ("a" :> PlainToken(FALSE, 0)) @@ ("b" :> PlainToken(TRUE, 7)) @@ ("l" :> ListToken(1, 2))

\* The target variables before any read(): the plain ones 0, the list empty.
NoTargets == ("a" :> 0) @@ ("b" :> 0) @@ ("l" :> <<>>)

\* istrm: whether the file could be opened, and the lines still to be read,
\* each a name and the word after it.
Stream(_open, _lines) == [open |-> _open, lines |-> _lines]

\* A parameter reader: its tokens, the file it is reading, and the variables
\* its tokens refer to.
Reader(_parameters, _istrm, _target) ==
  [parameters_ |-> _parameters, istrm |-> _istrm, target |-> _target]

\* The reader after registration, before any read().
NoReader == Reader(Registered, Stream(FALSE, <<>>), NoTargets)

NoHist ==
  [yearStart     |-> {},                     \* the population when the year's step began
   alderStart    |-> [a \in Addr |-> 0],     \* the ages when the year's step began
   aged          |-> [a \in Addr |-> 0],     \* age() calls per address in the Age/Death pass
   checked       |-> [a \in Addr |-> 0],     \* die() calls per address in the Age/Death pass
   died          |-> {},                     \* those whose die() returned true
   wanderStart   |-> {},                     \* the population when the Wander pass began
   visited       |-> <<>>,                   \* cells visited by the Wander pass, in order
   wandered      |-> [a \in Addr |-> 0],     \* wander() calls per address
   regrown       |-> [c \in Cells |-> 0],    \* regrow() calls per cell
   breedStart    |-> [c \in Cells |-> {}],   \* the resident sets when the Breeding pass began
   breedPop      |-> {},                     \* the population when the Breeding pass began
   bredCells     |-> {},                     \* cells whose breed() has returned
   bred          |-> [a \in Addr |-> 0],     \* breeding decisions per address
   born          |-> {},                     \* addresses of this year's newborns
   fitAtStart    |-> [a \in Addr |-> 0],     \* fitness when the Feeding pass began
   turns         |-> <<>>,                   \* feed() calls, in order
   feedStart     |-> [c \in Cells |-> 0],    \* the feed of every cell when the Feeding pass began
   grants        |-> <<>>,                   \* the graze() calls of the Feeding pass, in order
   deadTurns     |-> {},                     \* feed() calls on animals already deleted
   examined      |-> {},                     \* the cellmates the last predator's turn tried to catch
   eatenBefore   |-> {},                     \* those removed before the last turn
   removed       |-> [a \in Addr |-> 0],     \* erase-and-delete per address in the Feeding pass
   loaded        |-> 0,                      \* animals placed by the population files
   steps         |-> 0,                      \* step() calls made by run()
   reads         |-> 0,                      \* read() calls made on the parameter reader
   file          |-> <<>>,                   \* the lines of the file of the last read() call
   targetStart   |-> NoTargets,              \* the target variables when the last read() was entered
   asked         |-> NoAnimal,               \* the arguments of the last insertAnimal call
   draws         |-> NoDraws,                \* what the last checks took from the generator
   visit         |-> NoVisit,                \* the Cell::wander call in progress
   op            |-> NoOp]                   \* the last call recorded

(***************************************************************************)
(* Initial state: map built, species read, no animal yet.                  *)
(***************************************************************************)
Init ==
  /\ mapstream = <<>>
  /\ archetypesRead = archetypes
  /\ coordCall = NoCoordCall
  /\ param_reader_ = NoReader
  /\ thisSpecies = NoSpecies
  /\ _fullAdrMap = fullAdrMapBuilt
  /\ report = NoReport
  /\ habitants = [c \in Cells |-> {}]
  /\ feed = [c \in Cells |-> CellInit(c)]
  /\ _adrMap \in {s \in [1..Cardinality(LiveCells) -> LiveCells] :
                    /\ \A i, j \in DOMAIN s : i < j =>
                         (s[i][2] < s[j][2] \/ (s[i][2] = s[j][2] /\ s[i][1] < s[j][1]))}
  /\ obj = [a \in Addr |-> Zombie]
  /\ animals = {}
  /\ _year = 0
  /\ pc = "init"
  /\ iter = End
  /\ cells = <<>>
  /\ it2 = 1
  /\ inCell = FALSE
  /\ habitantsCopy = <<>>
  /\ spIdx = 1
  /\ theseBeasts = <<>>
  /\ largeN = 0
  /\ retval = <<>>
  /\ feedBeasts = <<>>
  /\ fbiter = 1
  /\ hist = NoHist

(***************************************************************************)
(* Population loading (Simulation::readPopulation -> insertAnimal).        *)
(***************************************************************************)
\* The values the population files supply.
LoadNames == {"B", "R", "W", "X"}
LoadAges == {0}
LoadWeights == {4, 16}
\* Coordinates: a jungle cell, a water cell (not participating), one beyond the grid.
LoadAt == {<<0, 0>>, <<0, 1>>, <<2, 0>>}

\* Simulation::vivify(archetype, x, y) and Simulation::insertAnimal: the
\* animal is created at a free address, entered into its cell and into the
\* population, and adjusted to the given age and weight.
insertAnimal(name, alder, vekt, x, y) ==
  /\ pc = "init"
  /\ hist.loaded < MaxLoad
  /\ LET archetypeSp == genus(name)
         locus == at(x, y)
     IN IF archetypeSp = "" \/ locus = NULL \/ ~addAnimal(locus)
        THEN /\ UNCHANGED <<obj, habitants, animals>>
             /\ hist' = [hist EXCEPT !.asked = Asked(name, alder, vekt, x, y),
                                     !.op = Op("insertAnimal", 0, 0, 0, 0, FALSE)]
        ELSE \E newBeast \in FreeAddr :
               LET n == Animal_new(obj, habitants, newBeast, archetypeSp, locus) IN
               /\ obj' = adjust(n[1], newBeast, alder, vekt)
               /\ habitants' = n[2]
               /\ animals' = animals \cup {newBeast}
               /\ hist' = [hist EXCEPT !.loaded = @ + 1,
                                       !.asked = Asked(name, alder, vekt, x, y),
                                       !.op = Op("insertAnimal", newBeast, 0, 0, 0, TRUE)]
  /\ UNCHANGED <<mapstream, coordCall, param_reader_, archetypesRead, thisSpecies, _fullAdrMap, report, feed, _adrMap, _year, pc, loopVars>>

(***************************************************************************)
(* The reports run() writes after each step (every interval being 1).      *)
(***************************************************************************)
\* The animals of a set that are predators (pred) or are not.
countOf(o, S, pred) == Cardinality({a \in S : predator(o[a].isa) = pred})

\* Simulation::reportPopulation: the year, then prey and predators in the
\* cells named J, in those named S, in those named O.
reportPopulation(o, pop, year) ==
  LET In(ch) == {a \in pop : archetype(o[a].loci).name = ch} IN
  <<year, countOf(o, In("J"), FALSE), countOf(o, In("J"), TRUE),
          countOf(o, In("S"), FALSE), countOf(o, In("S"), TRUE),
          countOf(o, In("O"), FALSE), countOf(o, In("O"), TRUE)>>

\* writeReport_dyr: for every cell of mapMap(true), its prey and its predators.
writeReport_dyr(full, o, h) ==
  [k \in 1..Len(mapMap_all(full)) |->
     <<countOf(o, Range(Cell_animals(h, mapMap_all(full)[k])), FALSE),
       countOf(o, Range(Cell_animals(h, mapMap_all(full)[k])), TRUE)>>]

\* A feed query that takes what it reports.
grazeQuery_takes(f) == <<f, 0>>

\* Cell::graze(): <<the value returned, the cell's feed after the call>>.
grazeQuery(f) == <<f, f>>

\* writeReport_for: for every cell of mapMap(true), what graze() returns.
writeReport_for(full, f) ==
  [k \in 1..Len(mapMap_all(full)) |-> grazeQuery(f[mapMap_all(full)[k]])[1]]

\* The feed of every cell after writeReport_for has queried it.
feedQueried(full, f) ==
  [c \in DOMAIN f |-> IF c \in Range(mapMap_all(full)) THEN grazeQuery(f[c])[2] ELSE f[c]]

\* The lines operator<< writes for a vector of animals: age and weight.
beastLines(o, beasts) == [i \in 1..Len(beasts) |-> <<o[beasts[i]].alder, o[beasts[i]].vekt>>]

\* writeReport_pop: for every cell of mapMap(true) and every species with
\* cellmates there, the species, the cell, the headcount and the animals.
RECURSIVE writeReport_pop(_, _, _, _, _)
writeReport_pop(full, o, h, k, i) ==
  IF k > Len(mapMap_all(full)) THEN <<>>
  ELSE IF i > Len(species) THEN writeReport_pop(full, o, h, k + 1, 1)
  ELSE LET c      == mapMap_all(full)[k]
           beasts == cellMates(o, h, c, species[i])
       IN (IF beasts # <<>>
           THEN << <<species[i], c[1], c[2], Len(beasts), beastLines(o, beasts)>> >>
           ELSE <<>>)
          \o writeReport_pop(full, o, h, k, i + 1)

(***************************************************************************)
(* Simulation::run.                                                        *)
(***************************************************************************)
\* Simulation::run: _year = year_begin, and the first line of the .dat file.
Run ==
  /\ pc = "init"
  /\ pc' = "run"
  /\ _year' = year_begin
  /\ report' = Report(year_begin, reportPopulation(obj, animals, year_begin), <<>>, <<>>, <<>>)
  /\ UNCHANGED <<mapstream, coordCall, param_reader_, archetypesRead, thisSpecies, _fullAdrMap, habitants, feed, _adrMap, obj, animals, loopVars, hist>>

(***************************************************************************)
(* Simulation::step, pass 1: ageing, weight loss and death.                *)
(***************************************************************************)
\* run(): while (_year <= year_end) step();  step() starts its ageing loop.
StepBegin ==
  /\ pc = "run"
  /\ _year <= year_end
  /\ pc' = "age"
  /\ iter' = SetBegin(animals)
  /\ hist' = [NoHist EXCEPT !.yearStart = animals, !.loaded = hist.loaded,
                            !.steps = hist.steps + 1,
                            !.alderStart = [a \in Addr |-> IF a \in animals
                                                            THEN obj[a].alder ELSE 0]]
  /\ UNCHANGED <<mapstream, coordCall, param_reader_, archetypesRead, thisSpecies, _fullAdrMap, report, habitants, feed, _adrMap, obj, animals, _year, cells, it2, inCell,
                 habitantsCopy, spIdx, theseBeasts, largeN, retval, feedBeasts, fbiter>>

\* run(): the loop ends when _year exceeds year_end.
RunEnd ==
  /\ pc = "run"
  /\ _year > year_end
  /\ pc' = "done"
  /\ UNCHANGED <<mapstream, coordCall, param_reader_, archetypesRead, thisSpecies, _fullAdrMap, report, habitants, feed, _adrMap, obj, animals, _year, loopVars, hist>>

\* A die() that reports the death but leaves the animal in its cell.
die_stayInCell(o, h, a, u) ==
  LET death == o[a].vekt = 0 \/ Species_die(o[a].isa, fitness(o, a), u)
      o1 == IF o[a].vekt = 0 THEN o ELSE fitnessCached(o, a)
  IN <<death, o1, h>>

\* Animal::die() with draw u: <<death, objects, resident sets>>.
die(o, h, a, u) ==
  LET death == o[a].vekt = 0 \/ Species_die(o[a].isa, fitness(o, a), u)
      o1 == IF o[a].vekt = 0 THEN o ELSE fitnessCached(o, a)
  IN IF death
     THEN <<TRUE, [o1 EXCEPT ![a].loci = NULL],
            IF o[a].loci # NULL THEN removeAnimal(h, o[a].loci, a) ELSE h>>
     ELSE <<FALSE, o1, h>>

\* Whether die() consumes a draw: not for weight 0, not for fitness <= 0.
dieDraws(o, a) == IF o[a].vekt = 0 \/ fitness(o, a) <= 0 THEN {0} ELSE DrawSet

\* A death loop that does not take the dead out of the population.
AgeErase_keep(pop, a) == pop

\* animals.erase(iter++).
AgeErase(pop, a) == pop \ {a}

\* One iteration of the ageing loop: age, die, and on death delete and erase.
AgeDie ==
  /\ pc = "age"
  /\ iter # End
  /\ LET o1 == age(obj, iter) IN
     \E u \in dieDraws(o1, iter) :
       LET d == die(o1, habitants, iter, u) IN
       /\ IF d[1]
          THEN /\ habitants' = Animal_delete(d[2], d[3], iter)
               /\ obj' = [d[2] EXCEPT ![iter] = Zombie]
               /\ animals' = AgeErase(animals, iter)
          ELSE /\ habitants' = d[3]
               /\ obj' = d[2]
               /\ animals' = animals
       /\ hist' = [hist EXCEPT !.aged[iter] = @ + 1, !.checked[iter] = @ + 1,
                              !.draws = Draws("die", 1, consumed(dieDraws(o1, iter)), 0, d[1]),
                               !.died = IF d[1] THEN @ \cup {iter} ELSE @]
  /\ iter' = SetNext(animals, iter)
  /\ UNCHANGED <<mapstream, coordCall, param_reader_, archetypesRead, thisSpecies, _fullAdrMap, report, feed, _adrMap, _year, pc, cells, it2, inCell, habitantsCopy, spIdx,
                 theseBeasts, largeN, retval, feedBeasts, fbiter>>

(***************************************************************************)
(* Simulation::step, pass 2: wandering and regrowth.                       *)
(***************************************************************************)
\* All orders of the elements of a set.
RECURSIVE Perms(_)
Perms(S) ==
  IF S = {} THEN {<<>>}
  ELSE UNION {{<<x>> \o p : p \in Perms(S \ {x})} : x \in S}

\* A traversal that shuffles every cell of the grid, participating or not.
mapMap_everyCell(adr) == Perms(Cells)

\* A traversal that stops after its first cell.
mapMap_firstOnly(adr) == {<<p[1]>> : p \in Perms(Range(adr))}

\* Map::mapMap(false): random_shuffle leaves _adrMap in any order of its elements.
mapMap(adr) == Perms(Range(adr))

\* step() goes on from the ageing loop to the wander loop: it fetches the
\* shuffled participating cells.
LeaveAgeLoop ==
  /\ pc = "age"
  /\ \E shuffled \in mapMap(_adrMap) :
       /\ _adrMap' = shuffled
       /\ cells' = shuffled
  /\ pc' = "wander"
  /\ it2' = 1
  /\ inCell' = FALSE
  /\ hist' = [hist EXCEPT !.wanderStart = animals]
  /\ UNCHANGED <<mapstream, coordCall, param_reader_, archetypesRead, thisSpecies, _fullAdrMap, report, habitants, feed, obj, animals, _year, iter, habitantsCopy, spIdx,
                 theseBeasts, largeN, retval, feedBeasts, fbiter>>

\* An ageing loop that may be left before it has reached the last animal.
AgePassEnd_early == LeaveAgeLoop

\* The ageing loop ends when iter reaches animals.end().
AgePassEnd == iter = End /\ LeaveAgeLoop

\* Cell::wander: the copy of the residents is taken (the cell is entered
\* also when it has no resident; its copy is then empty).
CellWander ==
  /\ pc = "wander"
  /\ ~inCell
  /\ it2 <= Len(cells)
  /\ inCell' = TRUE
  /\ habitantsCopy' = Cell_animals(habitants, cells[it2])
  /\ hist' = [hist EXCEPT !.visited = Append(@, cells[it2]),
                          !.visit = Visit(habitants[cells[it2]], <<>>)]
  /\ UNCHANGED <<mapstream, coordCall, param_reader_, archetypesRead, thisSpecies, _fullAdrMap, report, habitants, feed, _adrMap, obj, animals, _year, pc, iter, cells, it2,
                 spIdx, theseBeasts, largeN, retval, feedBeasts, fbiter>>

\* Animal::wander() with draws u (willWander) and n (nrand(4)): <<objects, resident sets>>.
wander(o, h, a, u, n) ==
  LET o1 == fitnessCached(o, a) IN
  IF willWander(o1[a].isa, o1[a].fitness, u)
  THEN LET m == moveTo(o1, h, a, neighbours(o1[a].loci)[n + 1]) IN <<m[1], m[2]>>
  ELSE <<o1, h>>

\* A wander() that asks nrand(4) for a direction before it knows whether the
\* animal will wander.
nrandDraws_always(o, a, u) == 0..3

\* The values nrand(4) is asked for: only when the animal will wander.
nrandDraws(o, a, u) == IF willWander(o[a].isa, fitness(o, a), u) THEN 0..3 ELSE {0}

\* One iteration of Cell::wander's loop: the next animal of the copy wanders.
AnimalWander ==
  /\ pc = "wander"
  /\ inCell
  /\ habitantsCopy # <<>>
  /\ LET a == Head(habitantsCopy) IN
     \E u \in DrawSet : \E n \in nrandDraws(obj, a, u) :
       LET w == wander(obj, habitants, a, u, n) IN
       /\ obj' = w[1]
       /\ habitants' = w[2]
       /\ hist' = [hist EXCEPT !.wandered[a] = @ + 1,
                               !.visit.tried = Append(@, a),
                               !.draws = Draws("wander", 1, consumed(DrawSet),
                                               consumed(nrandDraws(obj, a, u)),
                                               willWander(obj[a].isa, fitness(obj, a), u)),
                               !.op = Op("wander", a, 0, u, n,
                                         willWander(obj[a].isa, fitness(obj, a), u))]
  /\ habitantsCopy' = Tail(habitantsCopy)
  /\ UNCHANGED <<mapstream, coordCall, param_reader_, archetypesRead, thisSpecies, _fullAdrMap, report, feed, _adrMap, animals, _year, pc, iter, cells, it2, inCell, spIdx,
                 theseBeasts, largeN, retval, feedBeasts, fbiter>>

\* Cell::wander has returned: the cell regrows and the loop goes to the next cell.
Regrow ==
  /\ pc = "wander"
  /\ inCell
  /\ habitantsCopy = <<>>
  /\ feed' = [feed EXCEPT ![cells[it2]] = regrow(cells[it2], @)]
  /\ hist' = [hist EXCEPT !.regrown[cells[it2]] = @ + 1, !.op = NoOp, !.visit = NoVisit]
  /\ inCell' = FALSE
  /\ it2' = it2 + 1
  /\ UNCHANGED <<mapstream, coordCall, param_reader_, archetypesRead, thisSpecies, _fullAdrMap, report, habitants, _adrMap, obj, animals, _year, pc, iter, cells,
                 habitantsCopy, spIdx, theseBeasts, largeN, retval, feedBeasts, fbiter>>

(***************************************************************************)
(* Simulation::step, pass 3: breeding.                                     *)
(***************************************************************************)
\* The wander loop has ended; the breed loop starts over the same vector.
WanderPassEnd ==
  /\ pc = "wander"
  /\ ~inCell
  /\ it2 > Len(cells)
  /\ pc' = "breed"
  /\ it2' = 1
  /\ spIdx' = 1
  /\ theseBeasts' = <<>>
  /\ retval' = <<>>
  /\ hist' = [hist EXCEPT !.breedStart = habitants, !.breedPop = animals]
  /\ UNCHANGED <<mapstream, coordCall, param_reader_, archetypesRead, thisSpecies, _fullAdrMap, report, habitants, feed, _adrMap, obj, animals, _year, iter, cells, inCell,
                 habitantsCopy, largeN, feedBeasts, fbiter>>

\* Cell::breed, outer loop: the residents of the next species are collected
\* and counted.
BreedSpecies ==
  /\ pc = "breed"
  /\ it2 <= Len(cells)
  /\ theseBeasts = <<>>
  /\ spIdx <= Len(species)
  /\ LET mates == cellMates(obj, habitants, cells[it2], species[spIdx]) IN
     /\ theseBeasts' = mates
     /\ largeN' = Len(mates)
     /\ spIdx' = IF mates = <<>> THEN spIdx + 1 ELSE spIdx
  /\ UNCHANGED <<mapstream, coordCall, param_reader_, archetypesRead, thisSpecies, _fullAdrMap, report, habitants, feed, _adrMap, obj, animals, _year, pc, iter, cells, it2,
                 inCell, habitantsCopy, retval, feedBeasts, fbiter, hist>>

\* Animal::breed(): whether the animal gives birth.
breeds(o, a) == o[a].alder # 0 /\ canBreed(o[a].isa, o[a].vekt)

\* Cell::breed, inner loop: one animal's breeding decision, and the birth.
\* A birth needs a free address of the pool.
BreedAnimal ==
  /\ pc = "breed"
  /\ theseBeasts # <<>>
  /\ LET a  == Head(theseBeasts)
         o1 == fitnessCached(obj, a)
     IN \E u \in DrawSet :
          /\ IF birthChance(o1[a].isa, o1[a].fitness, largeN, u) /\ breeds(o1, a)
             THEN \E offspring \in FreeAddr :
                    LET o2 == [o1 EXCEPT ![a].vekt = @ - birthloss(o1[a].isa),
                                         ![a].fitness = ANIMAL_INV]
                        n  == Animal_new(o2, habitants, offspring, o2[a].isa, o2[a].loci)
                    IN /\ obj' = n[1]
                       /\ habitants' = n[2]
                       /\ retval' = Append(retval, offspring)
                       /\ hist' = [hist EXCEPT !.bred[a] = @ + 1,
                                               !.born = @ \cup {offspring},
                                               !.draws = Draws("breed", 1, consumed(DrawSet),
                                                               0, TRUE)]
             ELSE /\ obj' = o1
                  /\ UNCHANGED <<habitants, retval>>
                  /\ hist' = [hist EXCEPT !.bred[a] = @ + 1,
                                          !.draws = Draws("breed", 1, consumed(DrawSet),
                                                          0, FALSE)]
  /\ theseBeasts' = Tail(theseBeasts)
  /\ spIdx' = IF Tail(theseBeasts) = <<>> THEN spIdx + 1 ELSE spIdx
  /\ UNCHANGED <<mapstream, coordCall, param_reader_, archetypesRead, thisSpecies, _fullAdrMap, report, feed, _adrMap, animals, _year, pc, iter, cells, it2, inCell,
                 habitantsCopy, largeN, feedBeasts, fbiter>>

\* A breed loop that drops the newborns instead of registering them.
BreedInsert_never(pop, newBeasts) == pop

\* animals.insert(newBeasts.begin(), newBeasts.end()).
BreedInsert(pop, newBeasts) == pop \cup Range(newBeasts)

\* Cell::breed has returned: step() inserts the cell's newborns into animals.
BreedCellEnd ==
  /\ pc = "breed"
  /\ it2 <= Len(cells)
  /\ theseBeasts = <<>>
  /\ spIdx > Len(species)
  /\ animals' = BreedInsert(animals, retval)
  /\ hist' = [hist EXCEPT !.bredCells = @ \cup {cells[it2]}]
  /\ retval' = <<>>
  /\ spIdx' = 1
  /\ it2' = it2 + 1
  /\ UNCHANGED <<mapstream, coordCall, param_reader_, archetypesRead, thisSpecies, _fullAdrMap, report, habitants, feed, _adrMap, obj, _year, pc, iter, cells, inCell,
                 habitantsCopy, theseBeasts, largeN, feedBeasts, fbiter>>

(***************************************************************************)
(* Simulation::step, pass 4: sustenance.                                   *)
(***************************************************************************)
\* A comparison that puts the less fit first.
p_fit_ascending(o, a, b) == fitness(o, a) < fitness(o, b)

\* p_fit(a, b): a is strictly fitter than b.
p_fit(o, a, b) == fitness(o, a) > fitness(o, b)

\* part_pred(o): true for a herbivore.
part_pred(o, a) == ~predator(o[a].isa)

\* std::sort(first, last, p_fit): the orders it may leave the elements in
\* (no element is before one that p_fit puts strictly first).
sort(o, S) ==
  {s \in Perms(S) : \A i, j \in 1..Len(s) : i < j => ~p_fit(o, s[j], s[i])}

\* A partition that puts the predators first.
stable_partition_predFirst(o, s) ==
  LET yes(a) == part_pred(o, a)
      no(a)  == ~part_pred(o, a)
  IN SelectSeq(s, no) \o SelectSeq(s, yes)

\* std::stable_partition(first, last, part_pred).
stable_partition(o, s) ==
  LET yes(a) == part_pred(o, a)
      no(a)  == ~part_pred(o, a)
  IN SelectSeq(s, yes) \o SelectSeq(s, no)

\* The objects after std::sort has compared them: with two or more elements
\* p_fit has asked every one for its fitness.
sortCached(o, S) ==
  IF Cardinality(S) < 2 THEN o
  ELSE [a \in Addr |-> IF a \in S THEN fitnessCached(o, a)[a] ELSE o[a]]

\* The breed loop has ended; step() sorts and partitions the population.
BreedPassEnd ==
  /\ pc = "breed"
  /\ it2 > Len(cells)
  /\ \E sorted \in sort(obj, animals) :
       feedBeasts' = stable_partition(obj, sorted)
  /\ obj' = sortCached(obj, animals)
  /\ fbiter' = 1
  /\ pc' = "feed"
  /\ hist' = [hist EXCEPT !.fitAtStart = [a \in Addr |-> IF a \in animals
                                                          THEN fitness(obj, a) ELSE 0],
                          !.feedStart = feed]
  /\ UNCHANGED <<mapstream, coordCall, param_reader_, archetypesRead, thisSpecies, _fullAdrMap, report, habitants, feed, _adrMap, animals, _year, iter, cells, it2, inCell,
                 habitantsCopy, spIdx, theseBeasts, largeN, retval>>

\* A predator that tries to catch every cellmate, its own species included.
preyOf_anySpecies(o, h, beast) ==
  SelectSeq(Cell_animals(h, o[beast].loci), LAMBDA m : m # beast /\ o[m].vekt # 0)

\* Species::feed, predator branch: the cellmates eat() is called for.
preyOf(o, h, beast) ==
  SelectSeq(Cell_animals(h, o[beast].loci),
            LAMBDA m : o[m].isa # o[beast].isa /\ o[m].vekt # 0)

\* Species::feed, predator branch: the loop over the cellmates from the i-th
\* candidate on, with one draw per eat(): <<objects, food>>.
RECURSIVE hunt(_, _, _, _, _, _)
hunt(o, beast, prey, ds, i, food) ==
  IF i > Len(prey) THEN <<o, food>>
  ELSE LET m  == prey[i]
           o1 == fitnessCached(fitnessCached(o, beast), m)
           p  == speciesPar[o1[beast].isa]
       IN IF eat(o1[beast].fitness, o1[m].fitness, p.DeltaPhiMax, ds[i])
          THEN hunt(fatten(o1, beast, (p.betaN * o1[m].vekt) \div p.betaD),
                    beast, prey, ds, i + 1, Append(food, m))
          ELSE hunt(o1, beast, prey, ds, i + 1, food)

\* Species::feed(beast) with the draws ds: <<objects, feed, food>>.
Species_feed(o, h, f, beast, ds) ==
  IF predator(o[beast].isa)
  THEN LET r == hunt(o, beast, preyOf(o, h, beast), ds, 1, <<>>) IN <<r[1], f, r[2]>>
  ELSE LET p == speciesPar[o[beast].isa]
           g == graze(f[o[beast].loci], p.F)
       IN <<fatten(o, beast, (p.betaN * g[1]) \div p.betaD),
            [f EXCEPT ![o[beast].loci] = g[2]], <<beast>>>>

\* The draws one feed() consumes: one per eat().
feedDraws(o, h, beast) ==
  IF predator(o[beast].isa) THEN [1..Len(preyOf(o, h, beast)) -> DrawSet] ELSE {<<>>}

\* step(): the animals the turn's food vector makes it erase and delete.
eaten(food, beast) == IF Len(food) = 1 /\ food[1] = beast THEN <<>> ELSE food

\* The resident sets after every animal of a vector has been deleted.
RECURSIVE deleteAll(_, _, _)
deleteAll(o, h, gone) ==
  IF gone = <<>> THEN h ELSE deleteAll(o, Animal_delete(o, h, Head(gone)), Tail(gone))

\* The body of the feeding loop for the animal at fbiter.
Turn(beast) ==
  \E ds \in feedDraws(obj, habitants, beast) :
    LET r    == Species_feed(obj, habitants, feed, beast, ds)
        gone == eaten(r[3], beast)
    IN /\ obj' = r[1]
       /\ feed' = r[2]
       /\ habitants' = deleteAll(r[1], habitants, gone)
       /\ animals' = animals \ Range(gone)
       /\ hist' = [hist EXCEPT
                     !.turns = Append(@, beast),
                     !.grants = IF predator(obj[beast].isa) THEN @
                                ELSE Append(@, Grant(beast, obj[beast].loci,
                                                     speciesPar[obj[beast].isa].F,
                                                     graze(feed[obj[beast].loci],
                                                           speciesPar[obj[beast].isa].F)[1])),
                     !.draws = Draws("capture",
                                     IF predator(obj[beast].isa)
                                     THEN Len(preyOf(obj, habitants, beast)) ELSE 0,
                                     Len(ds), 0, r[3] # <<>>),
                     !.deadTurns = IF beast \in animals THEN @ ELSE @ \cup {beast},
                     !.examined = IF predator(obj[beast].isa)
                                  THEN Range(preyOf(obj, habitants, beast)) ELSE {},
                     !.eatenBefore = {a \in Addr : hist.removed[a] > 0},
                     !.removed = [a \in Addr |->
                                    @[a] + Cardinality({i \in 1..Len(gone) : gone[i] = a})]]

\* One iteration of the feeding loop, for an animal that is alive.
FeedTurn ==
  /\ pc = "feed"
  /\ fbiter <= Len(feedBeasts)
  /\ feedBeasts[fbiter] \in animals
  /\ Turn(feedBeasts[fbiter])
  /\ fbiter' = fbiter + 1
  /\ UNCHANGED <<mapstream, coordCall, param_reader_, archetypesRead, thisSpecies, _fullAdrMap, report, _adrMap, _year, pc, iter, cells, it2, inCell, habitantsCopy, spIdx,
                 theseBeasts, largeN, retval, feedBeasts>>

\* One iteration of the feeding loop for a pointer whose animal an earlier
\* turn has deleted (undefined behaviour), when the freed memory still
\* reads as the animal: the turn runs on the stale object.
StaleTurn ==
  /\ pc = "feed"
  /\ fbiter <= Len(feedBeasts)
  /\ feedBeasts[fbiter] \notin animals
  /\ Turn(feedBeasts[fbiter])
  /\ fbiter' = fbiter + 1
  /\ UNCHANGED <<mapstream, coordCall, param_reader_, archetypesRead, thisSpecies, _fullAdrMap, report, _adrMap, _year, pc, iter, cells, it2, inCell, habitantsCopy, spIdx,
                 theseBeasts, largeN, retval, feedBeasts>>

\* The same iteration when the use of the deleted animal faults (its isa is
\* NULL after the destructor): the program ends.
Crash ==
  /\ pc = "feed"
  /\ fbiter <= Len(feedBeasts)
  /\ feedBeasts[fbiter] \notin animals
  /\ pc' = "crashed"
  /\ hist' = [hist EXCEPT !.turns = Append(@, feedBeasts[fbiter]),
                          !.deadTurns = @ \cup {feedBeasts[fbiter]}]
  /\ UNCHANGED <<mapstream, coordCall, param_reader_, archetypesRead, thisSpecies, _fullAdrMap, report, habitants, feed, _adrMap, obj, animals, _year, loopVars>>

\* step() returns and run() counts the year; the locals of step() are gone
\* and with them every pointer to freed memory.
StepEnd ==
  /\ pc = "feed"
  /\ fbiter > Len(feedBeasts)
  /\ _year' = _year + 1
  /\ pc' = "report"
  /\ obj' = [a \in Addr |-> IF a \in animals THEN obj[a] ELSE Zombie]
  /\ iter' = End
  /\ cells' = <<>>
  /\ it2' = 1
  /\ feedBeasts' = <<>>
  /\ fbiter' = 1
  /\ largeN' = 0
  /\ UNCHANGED <<mapstream, coordCall, param_reader_, archetypesRead, thisSpecies, _fullAdrMap, report, habitants, feed, _adrMap, animals, inCell, habitantsCopy, spIdx,
                 theseBeasts, retval, hist>>

\* run() after step() and _year++: writeReport_dyr, writeReport_for,
\* writeReport_pop and writeReport_dat.
WriteReports ==
  /\ pc = "report"
  /\ report' = Report(_year, reportPopulation(obj, animals, _year),
                      writeReport_dyr(_fullAdrMap, obj, habitants),
                      writeReport_for(_fullAdrMap, feed),
                      writeReport_pop(_fullAdrMap, obj, habitants, 1, 1))
  /\ feed' = feedQueried(_fullAdrMap, feed)
  /\ pc' = "run"
  /\ UNCHANGED <<mapstream, coordCall, param_reader_, archetypesRead, thisSpecies, _fullAdrMap, habitants, _adrMap, obj, animals, _year,
                 loopVars, hist>>

(***************************************************************************)
(* The program.                                                            *)
(***************************************************************************)
Load ==
  \E name \in LoadNames, alder \in LoadAges, vekt \in LoadWeights, xy \in LoadAt :
    insertAnimal(name, alder, vekt, xy[1], xy[2])

Next ==
  \/ Load
  \/ Run
  \/ StepBegin
  \/ RunEnd
  \/ AgeDie
  \/ AgePassEnd
  \/ CellWander
  \/ AnimalWander
  \/ Regrow
  \/ WanderPassEnd
  \/ BreedSpecies
  \/ BreedAnimal
  \/ BreedCellEnd
  \/ BreedPassEnd
  \/ FeedTurn
  \/ StaleTurn
  \/ Crash
  \/ StepEnd
  \/ WriteReports

Spec == Init /\ [][Next]_vars

(***************************************************************************)
(* Properties.                                                             *)
(***************************************************************************)
\* The animals that exist: the population and the newborns Cell::breed holds.
Living == animals \cup Range(retval)

\* A pass of step() has just ended (or no step is under way).
AtPassEnd ==
  \/ pc \in {"run", "report", "done"}
  \/ pc = "age" /\ iter = End
  \/ pc = "wander" /\ ~inCell /\ it2 > Len(cells)
  \/ pc = "breed" /\ it2 > Len(cells)
  \/ pc = "feed" /\ fbiter > Len(feedBeasts)

\* The addresses whose animal died or was eaten this year and that hold no newborn.
Gone == (hist.died \ hist.born) \cup {a \in Addr : hist.removed[a] > 0}

\* C1: after every completed operation an animal is in the resident set of
\* cell c exactly if c is its own location, no animal is resident in two
\* cells, and what is no living animal is resident nowhere.
C1_Membership ==
  /\ \A a \in Living : \A c \in Cells : a \in habitants[c] <=> obj[a].loci = c
  /\ \A a \in Addr : \A c1, c2 \in Cells :
       (a \in habitants[c1] /\ a \in habitants[c2]) => c1 = c2
  /\ \A a \in Addr \ Living : \A c \in Cells : a \notin habitants[c]

\* C1 witness: an animal placed at (0,0) has wandered into the cell (1,0).
C1_Witness ==
  \E a \in animals : hist.wandered[a] > 0 /\ obj[a].loci = <<1, 0>> /\ a \in habitants[<<1, 0>>]

\* C2: after loading and at the end of each pass an animal is registered in
\* the population exactly if it has a cell and is resident there; what died
\* or was eaten is neither registered nor resident.
C2_Registered ==
  AtPassEnd =>
    /\ \A a \in Addr :
         a \in animals <=> (obj[a].loci # NULL /\ a \in habitants[obj[a].loci])
    /\ \A a \in Gone : a \notin animals /\ \A c \in Cells : a \notin habitants[c]

\* C2 witness: the Feeding pass ends in a year with a death and a capture,
\* with an animal still registered.
C2_Witness ==
  /\ pc = "feed" /\ fbiter > Len(feedBeasts)
  /\ hist.died # {} /\ animals # {} /\ \E a \in Addr : hist.removed[a] > 0

\* C3: the passes run in the order Age/Death, Wander/Regrowth, Breeding,
\* Feeding: a wander attempt or regrowth only after every death check, a
\* breeding decision only after every wander attempt and regrowth, a feeding
\* turn only after every breeding decision.
C3_PassOrder ==
  /\ (hist.visited # <<>> \/ \E c \in Cells : hist.regrown[c] > 0)
       => \A a \in hist.yearStart : hist.checked[a] >= 1
  /\ (\E a \in Addr : hist.bred[a] > 0)
       => /\ \A a \in hist.wanderStart : hist.wandered[a] >= 1
          /\ \A c \in LiveCells : hist.regrown[c] >= 1
          /\ \A a \in hist.yearStart : hist.checked[a] >= 1
  /\ hist.turns # <<>>
       => /\ \A a \in hist.breedPop : hist.bred[a] >= 1
          /\ \A c \in LiveCells : c \in hist.bredCells
          /\ \A a \in hist.wanderStart : hist.wandered[a] >= 1

\* C3 witness: a feeding turn in a year in which an animal died, one moved and one was born.
C3_Witness ==
  /\ pc = "feed" /\ hist.turns # <<>>
  /\ hist.died # {} /\ hist.born # {}
  /\ \E a \in Addr : hist.wandered[a] > 0

\* C4: every animal of the population at the start of the year is aged once
\* and death-checked once in the Age/Death pass, and one whose check returns
\* true leaves its cell and the population there and then: it makes no wander
\* attempt, no breeding decision and takes no feeding turn.
C4_AgeDeath ==
  /\ \A a \in Addr :
       /\ hist.aged[a] = hist.checked[a]
       /\ hist.aged[a] <= 1
       /\ hist.aged[a] = 1 => a \in hist.yearStart
  /\ (pc \in {"wander", "breed", "feed"} \/ (pc = "age" /\ iter = End))
       => \A a \in hist.yearStart : hist.aged[a] = 1
  /\ \A a \in hist.died :
       /\ hist.wandered[a] = 0
       /\ hist.bred[a] = 0
       /\ a \notin hist.born =>
            /\ a \notin animals
            /\ \A c \in Cells : a \notin habitants[c]
            /\ \A i \in 1..Len(hist.turns) : hist.turns[i] # a

\* C4 witness: feeding turns are taken in a year in which one animal died and another survived.
C4_Witness ==
  /\ pc = "feed" /\ hist.turns # <<>>
  /\ hist.died # {} /\ hist.yearStart \ hist.died # {}

\* C5 (as claimed): no animal makes more than one wander attempt in a year,
\* and when the Wander pass is over every animal alive at its start has made
\* exactly one.
C5_WanderOnce ==
  /\ \A a \in Addr : hist.wandered[a] <= 1
  /\ pc \in {"breed", "feed"} => \A a \in hist.wanderStart : hist.wandered[a] = 1

\* C6: the count largeN used for the breeding decisions of a species in a
\* cell is the number of that species resident in the cell when the Breeding
\* pass began; newborns are not among those deciding and make no decision.
C6_BreedCount ==
  /\ (pc = "breed" /\ theseBeasts # <<>>) =>
       /\ largeN = Cardinality({a \in hist.breedStart[cells[it2]] :
                                  obj[a].isa = species[spIdx]})
       /\ Range(theseBeasts) \subseteq hist.breedStart[cells[it2]]
       /\ Range(theseBeasts) \cap hist.born = {}
  /\ \A a \in hist.born : hist.bred[a] = 0

\* C6 witness: a breeding decision is pending in a cell in which a newborn
\* of the same species is already resident.
C6_Witness ==
  /\ pc = "breed" /\ theseBeasts # <<>>
  /\ \E a \in hist.born : a \in habitants[cells[it2]] /\ obj[a].isa = species[spIdx]
  /\ largeN < Cardinality({a \in habitants[cells[it2]] : obj[a].isa = species[spIdx]})

\* C7 (as claimed): while the Breeding pass runs neither the population nor
\* any resident set changes.
C7_Buffered ==
  pc = "breed" => (animals = hist.breedPop /\ habitants = hist.breedStart)

\* C7 (amended): during the Breeding pass a resident set grows by exactly the
\* newborns of its cell, at their birth; the population grows by exactly the
\* newborns of the cells whose breeding has finished; nothing else changes,
\* and at the end of the pass every newborn is in both.
C7_Amended ==
  pc = "breed" =>
    /\ \A c \in Cells :
         habitants[c] = hist.breedStart[c] \cup {a \in hist.born : obj[a].loci = c}
    /\ animals = hist.breedPop \cup {a \in hist.born : obj[a].loci \in hist.bredCells}
    /\ hist.breedPop \cap hist.born = {}
    /\ it2 > Len(cells) => hist.born \subseteq animals

\* C7 witness: a newborn is resident in its cell and not yet in the population.
C7_Witness ==
  /\ pc = "breed"
  /\ \E a \in hist.born : a \notin animals /\ \E c \in Cells : a \in habitants[c]

\* C8: in the Feeding pass no predator takes its turn before a herbivore,
\* and among the herbivores and among the predators the turns are in
\* non-increasing order of the fitness at the start of the pass.
C8_FeedOrder ==
  pc \in {"feed", "crashed"} =>
    \A i, j \in 1..Len(hist.turns) :
      i < j =>
        LET a == hist.turns[i]
            b == hist.turns[j]
        IN /\ ~(predator(obj[a].isa) /\ ~predator(obj[b].isa))
           /\ predator(obj[a].isa) = predator(obj[b].isa)
                => hist.fitAtStart[a] >= hist.fitAtStart[b]

\* C8 witness: a herbivore and two predators of different fitness have taken their turns.
C8_Witness ==
  /\ pc = "feed" /\ Len(hist.turns) = 3
  /\ ~predator(obj[hist.turns[1]].isa)
  /\ predator(obj[hist.turns[2]].isa) /\ predator(obj[hist.turns[3]].isa)
  /\ hist.fitAtStart[hist.turns[2]] > hist.fitAtStart[hist.turns[3]]

\* C9: in a Feeding pass no animal is erased and deleted more than once; a
\* captured animal is out of the population and of its cell when the turn
\* ends, and no later turn has it among the cellmates it tries to catch.
C9_RemovedOnce ==
  /\ \A a \in Addr : hist.removed[a] <= 1
  /\ hist.examined \cap hist.eatenBefore = {}
  /\ \A a \in Addr :
       hist.removed[a] > 0 => (a \notin animals /\ \A c \in Cells : a \notin habitants[c])

\* C9 witness: after a capture a later predator has tried to catch cellmates
\* in the cell the captured animal was in.
C9_Witness ==
  /\ pc = "feed"
  /\ hist.eatenBefore # {} /\ hist.examined # {}
  /\ \E a \in hist.eatenBefore : obj[a].loci = obj[hist.turns[Len(hist.turns)]].loci

\* C10 (as claimed): feed() is never called on an animal that was consumed
\* earlier in the pass.
C10_NoDeadTurn == hist.deadTurns = {}

\* The cell next to c on side i (1 left, 2 up, 3 right, 4 down) where the
\* grid has one, and c itself where the grid ends.
AdjacentOrSelf(c, i) ==
  LET d == CASE i = 1 -> <<c[1] - 1, c[2]>>
             [] i = 2 -> <<c[1], c[2] - 1>>
             [] i = 3 -> <<c[1] + 1, c[2]>>
             [] i = 4 -> <<c[1], c[2] + 1>>
  IN IF d \in Cells THEN d ELSE c

\* C11 (as claimed): every cell has four neighbour references, each to an
\* existing cell: the adjacent cell where there is one and the cell itself
\* at a low and at a high edge of the grid alike.
C11_Neighbours ==
  \A c \in DOMAIN habitants :
    /\ Len(neighbours(c)) = 4
    /\ \A i \in 1..4 : neighbours(c)[i] \in Cells /\ neighbours(c)[i] = AdjacentOrSelf(c, i)

\* A destination a wander cannot lead into: no cell (beyond a high edge), the
\* cell itself (a low edge), or a cell that is not participating.
NoEntry(c, dest) == dest = NULL \/ dest = c \/ ~addAnimal(dest)

\* C12: every living animal is located in an existing participating cell,
\* and a wander whose destination is a non-participating cell or lies beyond
\* an edge of the grid changes neither the animal's location nor any
\* resident set: so for the wander about to be made, whatever its draws, and
\* so for the wander just made.
C12_Located ==
  /\ \A a \in Living : obj[a].loci \in LiveCells /\ a \in habitants[obj[a].loci]
  /\ (pc = "wander" /\ inCell /\ habitantsCopy # <<>>) =>
       LET a == Head(habitantsCopy) IN
       \A u \in DrawSet : \A n \in 0..3 :
         NoEntry(obj[a].loci, neighbours(obj[a].loci)[n + 1]) =>
           LET w == wander(obj, habitants, a, u, n) IN
           /\ w[2] = habitants
           /\ \A b \in Addr : w[1][b].loci = obj[b].loci
  /\ (hist.op.name = "wander" /\ hist.op.ret) =>
       LET a == hist.op.who
           here == obj[a].loci
       IN \/ here = hist.visited[Len(hist.visited)]
          \/ /\ here \in Range(neighbours(hist.visited[Len(hist.visited)]))
             /\ addAnimal(here)

\* C12 witness: an animal has just made a wander towards the null neighbour
\* beyond the high x edge, and is where it was.
C12_Witness ==
  /\ hist.op.name = "wander" /\ hist.op.ret
  /\ obj[hist.op.who].loci = <<1, 0>>
  /\ hist.visited[Len(hist.visited)] = <<1, 0>>
  /\ neighbours(<<1, 0>>)[hist.op.n + 1] = NULL
  /\ hist.op.who \in habitants[<<1, 0>>]

\* The animal whose feeding turn is next.
TurnBeast == feedBeasts[fbiter]

\* A feeding turn is about to be taken, and the step takes it.
TakesTurn ==
  /\ pc = "feed" /\ fbiter <= Len(feedBeasts)
  /\ pc' = "feed" /\ fbiter' = fbiter + 1

\* C13: a herbivore's feeding turn grants it min(cell feed, F), lowers the
\* feed of its cell by exactly that amount and raises its weight by beta
\* times that amount; no other animal, no other cell, no resident set and
\* not the population changes.
C13_GrazeTurn ==
  [][(TakesTurn /\ ~predator(obj[TurnBeast].isa)) =>
       LET b     == TurnBeast
           c     == obj[b].loci
           p     == speciesPar[obj[b].isa]
           grant == IF feed[c] <= p.F THEN feed[c] ELSE p.F
       IN /\ feed' = [feed EXCEPT ![c] = feed[c] - grant]
          /\ obj'[b].vekt = obj[b].vekt + (p.betaN * grant) \div p.betaD
          /\ obj'[b].alder = obj[b].alder /\ obj'[b].loci = c /\ obj'[b].isa = obj[b].isa
          /\ \A a \in Addr \ {b} : obj'[a] = obj[a]
          /\ habitants' = habitants
          /\ animals' = animals]_vars

\* C13 witness: two herbivores have fed in the jungle cell and the second got
\* less than F: the cell has no feed left.
C13_Witness ==
  /\ pc = "feed" /\ Len(hist.turns) = 2
  /\ \A i \in 1..2 : /\ ~predator(obj[hist.turns[i]].isa)
                     /\ obj[hist.turns[i]].loci = <<0, 0>>
  /\ feed[<<0, 0>>] = 0
  /\ CellInit(<<0, 0>>) < 2 * speciesPar["B"].F

\* The amounts F a herbivore asks a cell for.
GrazeAmounts == {speciesPar[s].F : s \in {t \in DOMAIN speciesPar : ~predator(t)}} \cup {0, 1}

\* C14: the feed of every cell is within 0 and the maximum feed of its
\* terrain in every reachable state; and from any feed within these limits,
\* for every terrain type of the catalog (alpha 0, 1/2 and 1), a graze of any
\* amount F >= 0 and a regrowth lead to a feed within them.
C14_FeedBounds ==
  /\ \A c \in Cells : 0 <= feed[c] /\ feed[c] <= archetype(c).maxfeed
  /\ \A c \in Cells : CellInit(c) = archetype(c).maxfeed
  /\ \A ch \in DOMAIN archetypes :
       LET t == archetypes[ch] IN
       \A f \in 0..t.maxfeed :
         /\ f <= Arch_regrow(t, f) /\ Arch_regrow(t, f) <= t.maxfeed
         /\ \A am \in GrazeAmounts :
              /\ 0 <= graze(f, am)[2] /\ graze(f, am)[2] <= f
              /\ graze(f, am)[1] + graze(f, am)[2] = f
  /\ \A c \in LiveCells : feed[c] <= regrow(c, feed[c]) /\ regrow(c, feed[c]) <= archetype(c).maxfeed

\* C14 witness: a cell has regrown and has then been grazed below its maximum.
C14_Witness ==
  \E c \in LiveCells : hist.regrown[c] > 0 /\ hist.turns # <<>> /\ 0 < feed[c] /\ feed[c] < archetype(c).maxfeed

\* beta times the weight of each animal of S, summed (for the species of beast b).
RECURSIVE GainFrom(_, _, _)
GainFrom(o, b, S) ==
  IF S = {} THEN 0
  ELSE LET m == CHOOSE x \in S : TRUE
           p == speciesPar[o[b].isa]
       IN (p.betaN * o[m].vekt) \div p.betaD + GainFrom(o, b, S \ {m})

\* C15: the feeding turn of a predator tries to catch exactly the
\* residents of its cell at the start of the turn that are of another
\* species and have a weight other than 0, each once, never itself or one of
\* its own species; its weight rises by beta times the summed weights of
\* those it caught; and exactly those it caught leave the population and the
\* cell, nothing else changing place.
C15_PredatorTurn ==
  [][(TakesTurn /\ predator(obj[TurnBeast].isa)) =>
       LET b      == TurnBeast
           c      == obj[b].loci
           tried  == {m \in habitants[c] : obj[m].isa # obj[b].isa /\ obj[m].vekt # 0}
           caught == animals \ animals'
       IN /\ hist'.examined = tried
          /\ Len(preyOf(obj, habitants, b)) = Cardinality(tried)
          /\ b \notin tried
          /\ caught \subseteq tried
          /\ animals' \subseteq animals
          /\ obj'[b].vekt = obj[b].vekt + GainFrom(obj, b, caught)
          /\ habitants' = [d \in Cells |-> habitants[d] \ caught]
          /\ \A m \in Addr : hist'.removed[m] = hist.removed[m] + (IF m \in caught THEN 1 ELSE 0)
          /\ \A m \in Addr \ {b} : /\ obj'[m].vekt = obj[m].vekt
                                   /\ obj'[m].alder = obj[m].alder
                                   /\ obj'[m].isa = obj[m].isa
          /\ feed' = feed]_vars

\* C15 witness: a predator has caught two animals in one turn (nothing had
\* been removed before its turn, two are removed after it).
C15_Witness ==
  /\ pc = "feed" /\ hist.turns # <<>>
  /\ predator(obj[hist.turns[Len(hist.turns)]].isa)
  /\ hist.turns[Len(hist.turns)] \in animals
  /\ hist.eatenBefore = {}
  /\ Cardinality({a \in Addr : hist.removed[a] > 0}) = 2

(***************************************************************************)
(* The operations called one at a time.  A population of one or two        *)
(* animals of any species, age and weight a population file can give is    *)
(* loaded (Simulation::insertAnimal), and then one of Animal::die,         *)
(* Animal::eat and Cell::breed is called on it, as step() calls them.      *)
(***************************************************************************)
\* The values the population files supply here.
CallSpecies == {"B", "R", "W"}
CallAges == {0, 1}
CallWeights == {0, 2, 6, 7, 16}

\* The draws supplied to die() and eat(): from the least to the greatest of [0,1).
DrawProbe == {0, 128, 256, 512, DrawOne - 1}

\* An animal as insertAnimal leaves it: vivified in cell c, then adjusted.
Loaded(s, alder, vekt, c) ==
  [isa |-> s, vekt |-> vekt, alder |-> alder, loci |-> c, fitness |-> ANIMAL_INV]

\* The state after loading: an animal in the jungle cell at the first
\* address and, or not, a second one in a participating cell at the second.
InitCalls ==
  /\ \E first \in {Loaded(s, al, w, <<0, 0>>) :
                     s \in CallSpecies, al \in CallAges, w \in CallWeights} :
     \E second \in {Zombie} \cup {Loaded(s, al, w, c) : s \in CallSpecies, al \in CallAges,
                                     w \in CallWeights, c \in LiveCells} :
       obj = [a \in Addr |-> IF a = SetBegin(Addr) THEN first
                             ELSE IF a = SetNext(Addr, SetBegin(Addr)) THEN second
                             ELSE Zombie]
  /\ mapstream = <<>>
  /\ archetypesRead = archetypes
  /\ coordCall = NoCoordCall
  /\ param_reader_ = NoReader
  /\ thisSpecies = NoSpecies
  /\ _fullAdrMap = fullAdrMapBuilt
  /\ report = NoReport
  /\ animals = {a \in Addr : obj[a].isa # ""}
  /\ habitants = [c \in Cells |-> {a \in Addr : obj[a].isa # "" /\ obj[a].loci = c}]
  /\ feed = [c \in Cells |-> CellInit(c)]
  /\ _adrMap \in {s \in [1..Cardinality(LiveCells) -> LiveCells] :
                    /\ \A i, j \in DOMAIN s : i < j =>
                         (s[i][2] < s[j][2] \/ (s[i][2] = s[j][2] /\ s[i][1] < s[j][1]))}
  /\ _year = year_begin
  /\ pc = "call"
  /\ iter = End
  /\ cells = <<>>
  /\ it2 = 1
  /\ inCell = FALSE
  /\ habitantsCopy = <<>>
  /\ spIdx = 1
  /\ theseBeasts = <<>>
  /\ largeN = 0
  /\ retval = <<>>
  /\ feedBeasts = <<>>
  /\ fbiter = 1
  /\ hist = [NoHist EXCEPT !.loaded = Cardinality({a \in Addr : obj[a].isa # ""})]

\* die() is called on an animal, as the ageing loop does after age().
CallDie ==
  /\ pc = "call"
  /\ \E a \in animals :
       LET drawn == dieDraws(obj, a) # {0} IN
       \E u \in (IF drawn THEN DrawProbe ELSE {0}) :
         LET d == die(obj, habitants, a, u) IN
         /\ obj' = d[2]
         /\ habitants' = d[3]
         /\ hist' = [hist EXCEPT !.op = Op("die", a, 0, u, IF drawn THEN 1 ELSE 0, d[1])]
  /\ pc' = "called"
  /\ UNCHANGED <<mapstream, coordCall, param_reader_, archetypesRead, thisSpecies, _fullAdrMap, report, feed, _adrMap, animals, _year, loopVars>>

\* eat(prey) is called on a predator, as Species::feed does for a cellmate
\* of another species with a weight other than 0.
CallEat ==
  /\ pc = "call"
  /\ \E a \in animals :
       /\ predator(obj[a].isa)
       /\ \E m \in Range(preyOf(obj, habitants, a)) : \E u \in DrawProbe :
            LET o1 == fitnessCached(fitnessCached(obj, a), m)
                r  == eat(o1[a].fitness, o1[m].fitness, speciesPar[o1[a].isa].DeltaPhiMax, u)
            IN /\ obj' = o1
               /\ hist' = [hist EXCEPT !.op = Op("eat", a, m, u, 1, r)]
  /\ pc' = "called"
  /\ UNCHANGED <<mapstream, coordCall, param_reader_, archetypesRead, thisSpecies, _fullAdrMap, report, habitants, feed, _adrMap, animals, _year, loopVars>>

\* Cell::breed is called on a cell with residents, as the breeding loop
\* does; the call itself is BreedSpecies, BreedAnimal and BreedCellEnd.
CallBreed ==
  /\ pc = "call"
  /\ \E c \in LiveCells :
       /\ habitants[c] # {}
       /\ cells' = <<c>>
  /\ pc' = "breed"
  /\ it2' = 1
  /\ spIdx' = 1
  /\ hist' = [hist EXCEPT !.breedStart = habitants, !.breedPop = animals]
  /\ UNCHANGED <<mapstream, coordCall, param_reader_, archetypesRead, thisSpecies, _fullAdrMap, report, habitants, feed, _adrMap, obj, animals, _year, iter, inCell,
                 habitantsCopy, theseBeasts, largeN, retval, feedBeasts, fbiter>>

NextCalls ==
  \/ CallDie
  \/ CallEat
  \/ CallBreed
  \/ BreedSpecies
  \/ BreedAnimal
  \/ BreedCellEnd

SpecCalls == InitCalls /\ [][NextCalls]_vars


\* C16: a capture between a predator of fitness pp and a prey of fitness pq,
\* with draw u of [0,1): never succeeds when pp <= pq; succeeds exactly when
\* u < (pp - pq)/deltaPhiMax when 0 < pp - pq < deltaPhiMax; always succeeds
\* when pp - pq >= deltaPhiMax.  Checked for the draw of the call and, on the
\* same pair, for every draw of [0,1).
C16_CaptureChance ==
  [][(hist'.op.name = "eat" /\ hist.op.name = "") =>
       LET a    == hist'.op.who
           m    == hist'.op.other
           pp   == obj'[a].fitness
           pq   == obj'[m].fitness
           dmax == speciesPar[obj[a].isa].DeltaPhiMax
           Caught(u) == IF pp <= pq THEN FALSE
                        ELSE IF pp - pq < dmax THEN u * dmax < DrawOne * (pp - pq)
                        ELSE TRUE
       IN /\ pp = fitness(obj, a)
          /\ pq = fitness(obj, m)
          /\ hist'.op.ret = Caught(hist'.op.u)
          /\ \A u \in 0..(DrawOne - 1) : eat(pp, pq, dmax, u) = Caught(u)]_vars

\* C16 witness: a capture with a fitness difference strictly between 0 and
\* deltaPhiMax has succeeded on a draw other than the least.
C16_Witness ==
  /\ hist.op.name = "eat"
  /\ hist.op.ret
  /\ hist.op.u > 0
  /\ obj[hist.op.who].fitness > obj[hist.op.other].fitness
  /\ obj[hist.op.who].fitness - obj[hist.op.other].fitness
       < speciesPar[obj[hist.op.who].isa].DeltaPhiMax


\* C17: die() on an animal of weight 0 or of fitness <= 0 returns true and
\* consumes no draw; on any other animal it consumes one draw u and returns
\* true exactly when u < omega * (1 - fitness), for the draw of the call and
\* for every draw of [0,1).  When it returns true the animal is in no
\* cell's resident set and has no location, every other resident staying;
\* when it returns false the resident sets and its location are unchanged.
C17_Die ==
  [][(hist'.op.name = "die" /\ hist.op.name = "") =>
       LET a    == hist'.op.who
           phi  == fitness(obj, a)
           p    == speciesPar[obj[a].isa]
           sure == obj[a].vekt = 0 \/ phi <= 0
           Below(u, f) == u * p.omegaD * FitOne < DrawOne * p.omegaN * (FitOne - f)
       IN /\ sure => (hist'.op.ret /\ hist'.op.n = 0)
          /\ ~sure => /\ hist'.op.n = 1
                      /\ hist'.op.ret = Below(hist'.op.u, phi)
                      /\ obj'[a].fitness = phi
                      /\ \A u \in 0..(DrawOne - 1) :
                           Species_die(obj[a].isa, obj'[a].fitness, u)
                             = Below(u, obj'[a].fitness)
          /\ hist'.op.ret => /\ obj'[a].loci = NULL
                             /\ \A c \in Cells : a \notin habitants'[c]
                             /\ habitants' = [c \in Cells |-> habitants[c] \ {a}]
          /\ ~hist'.op.ret => /\ habitants' = habitants
                              /\ obj'[a].loci = obj[a].loci
                              /\ a \in habitants'[obj'[a].loci]]_vars

\* C17 witness: an animal of weight other than 0 and of positive fitness has
\* died on a draw other than the least, and is in no cell.
C17_Witness ==
  /\ hist.op.name = "die"
  /\ hist.op.ret
  /\ hist.op.n = 1
  /\ hist.op.u > 0
  /\ obj[hist.op.who].vekt # 0
  /\ obj[hist.op.who].fitness > 0
  /\ obj[hist.op.who].loci = NULL
  /\ \A c \in Cells : hist.op.who \notin habitants[c]


\* A step of the loop of Cell::breed over the residents of one species: the
\* breeding decision of the animal at the head of theseBeasts.
BreedDecision == pc = "breed" /\ theseBeasts # <<>> /\ hist'.bred # hist.bred

\* C18: an animal gets at most one breeding decision in a call of
\* Cell::breed and a decision produces at most one offspring; a birth
\* happens only to a parent of age >= 1 and of weight >= minWeight +
\* zeta * birthWeight; the offspring is a new animal in the parent's cell, of
\* the parent's species, age 0 and the species' birth weight; the parent's
\* weight drops by exactly zeta * birthWeight and is still >= minWeight;
\* without a birth, weights and resident sets are unchanged.
C18_Birth ==
  [][BreedDecision =>
       LET a       == Head(theseBeasts)
           p       == speciesPar[obj[a].isa]
           newborn == hist'.born \ hist.born
       IN /\ hist.bred[a] = 0
          /\ hist'.bred[a] = 1
          /\ Cardinality(newborn) <= 1
          /\ newborn # {} =>
               /\ obj[a].alder >= 1
               /\ obj[a].vekt * p.zetaD >= p.v_min * p.zetaD + p.zetaN * p.v_fod
               /\ (obj[a].vekt - obj'[a].vekt) * p.zetaD = p.zetaN * p.v_fod
               /\ obj'[a].vekt >= p.v_min
               /\ obj'[a].alder = obj[a].alder
               /\ \A b \in newborn :
                    /\ b \notin animals
                    /\ \A c \in Cells : b \notin habitants[c]
                    /\ obj'[b].isa = obj[a].isa
                    /\ obj'[b].alder = 0
                    /\ obj'[b].vekt = p.v_fod
                    /\ obj'[b].loci = obj[a].loci
                    /\ habitants' = [habitants EXCEPT ![obj[a].loci] = @ \cup {b}]
          /\ newborn = {} => /\ obj'[a].vekt = obj[a].vekt
                             /\ habitants' = habitants
          /\ \A m \in Addr \ ({a} \cup newborn) : obj'[m] = obj[m]]_vars

\* C18 witness: a parent of age >= 1 has given birth from exactly the least
\* sufficient weight and is left at the minimum weight, its offspring of age
\* 0 and birth weight beside it.
C18_Witness ==
  /\ pc = "breed"
  /\ \E a \in animals : \E b \in hist.born :
       /\ hist.bred[a] = 1
       /\ obj[a].alder >= 1
       /\ obj[a].vekt = speciesPar[obj[a].isa].v_min
       /\ b \in habitants[obj[a].loci]
       /\ obj[b].isa = obj[a].isa
       /\ obj[b].alder = 0
       /\ obj[b].vekt = speciesPar[obj[a].isa].v_fod


\* The residents of an animal's species in its cell when Cell::breed was
\* called, whatever their age.
SameSpeciesResidents(a) == {m \in hist.breedStart[obj[a].loci] : obj[m].isa = obj[a].isa}

\* C19: the N of every breeding decision is the number of residents of the
\* animal's species in its cell, those of age 0 included, and they are the
\* animals that get a decision; with N = 1 the birth chance is below every
\* draw of [0,1) and no birth happens, whatever the age and the weight of the
\* animal; a birth happens only with N >= 2.
C19_CountsAll ==
  [][BreedDecision =>
       LET a == Head(theseBeasts) IN
       /\ largeN = Cardinality(SameSpeciesResidents(a))
       /\ a \in SameSpeciesResidents(a)
       /\ \A m \in SameSpeciesResidents(a) : obj[m].alder >= 0
       /\ Range(theseBeasts) \subseteq SameSpeciesResidents(a)
       /\ hist'.born # hist.born => largeN >= 2
       /\ largeN = 1 =>
            /\ hist'.born = hist.born
            /\ obj'[a].fitness = fitness(obj, a)
            /\ \A u \in 0..(DrawOne - 1) : ~birthChance(obj[a].isa, obj'[a].fitness, largeN, u)]_vars

\* C19 witness: an animal has given birth in a cell where the only other
\* resident of its species has age 0: N was 2.
C19_Witness ==
  /\ pc = "breed"
  /\ largeN = 2
  /\ \E a \in animals : \E m \in animals \ {a} :
       /\ hist.bred[a] = 1
       /\ SameSpeciesResidents(a) = {a, m}
       /\ obj[m].alder = 0
       /\ \E b \in hist.born : obj[b].loci = obj[a].loci /\ obj[b].isa = obj[a].isa


(***************************************************************************)
(* Map::init: the cells are built from the terrain codes of the .geo file, *)
(* row by row.  The file gives the dimensions of geo and any codes.        *)
(***************************************************************************)
\* The characters a .geo file holds here: the five registered codes, the
\* name of the default ArchCell, and two that are nothing.
TerrainCodes == {"H", "S", "J", "F", "O", "?", "X", "j"}

\* ArchCell::ArchCell(): the terrain type a std::map lookup creates for a
\* key it does not hold.
ArchCell_default == ArchCell("?", 0, 1, 0, FALSE)

\* archetypes[value] (std::map::operator[]): the registered type, or a
\* default-constructed one.
archetypes_at(value) ==
  IF value \in DOMAIN archetypes THEN archetypes[value] ELSE ArchCell_default

\* The coordinates of the next cell of the loops over y and x, given the
\* cells built so far.
coordNext(built) ==
  <<Cardinality(built) % _cols, Cardinality(built) \div _cols>>

\* Map::init has opened the file and read the dimensions; no cell yet.
InitMap ==
  /\ mapstream \in [1..(_rows * _cols) -> TerrainCodes]
  /\ archetypesRead = archetypes
  /\ coordCall = NoCoordCall
  /\ param_reader_ = NoReader
  /\ thisSpecies = NoSpecies
  /\ _fullAdrMap = <<>>
  /\ report = NoReport
  /\ habitants = <<>>
  /\ feed = <<>>
  /\ _adrMap = <<>>
  /\ obj = [a \in Addr |-> Zombie]
  /\ animals = {}
  /\ _year = 0
  /\ pc = "mapinit"
  /\ iter = End
  /\ cells = <<>>
  /\ it2 = 1
  /\ inCell = FALSE
  /\ habitantsCopy = <<>>
  /\ spIdx = 1
  /\ theseBeasts = <<>>
  /\ largeN = 0
  /\ retval = <<>>
  /\ feedBeasts = <<>>
  /\ fbiter = 1
  /\ hist = NoHist

\* One iteration of the loops of Map::init: a code is read and looked up;
\* the lookup's name is compared with the code; the cell is built with its
\* terrain's maximum feed, or the error is thrown.
ReadCell ==
  /\ pc = "mapinit"
  /\ mapstream # <<>>
  /\ LET value == Head(mapstream)
         coord == coordNext(DOMAIN feed)
         type  == archetypes_at(value)
     IN IF type.name # value
        THEN /\ pc' = "maperror"
             /\ UNCHANGED <<habitants, feed, _adrMap, _fullAdrMap>>
        ELSE /\ pc' = pc
             /\ feed' = feed @@ (coord :> type.maxfeed)
             /\ habitants' = habitants @@ (coord :> {})
             /\ _adrMap' = IF type.live THEN Append(_adrMap, coord) ELSE _adrMap
             /\ _fullAdrMap' = Append(_fullAdrMap, coord)
  /\ mapstream' = Tail(mapstream)
  /\ UNCHANGED <<coordCall, param_reader_, archetypesRead, thisSpecies, report, obj, animals, _year, loopVars, hist>>

\* The loops have built every cell: the map is ready.
MapBuilt ==
  /\ pc = "mapinit"
  /\ mapstream = <<>>
  /\ pc' = "init"
  /\ UNCHANGED <<mapstream, coordCall, param_reader_, archetypesRead, thisSpecies, _fullAdrMap, report, habitants, feed, _adrMap, obj, animals, _year, loopVars, hist>>

NextMap ==
  \/ ReadCell
  \/ MapBuilt

SpecMap == InitMap /\ [][NextMap]_vars

\* C20: in Map::init, every code that is not one of the registered terrain
\* codes ends the building with the error and builds no cell, and every
\* registered code builds the next cell with its feed equal to the maximum
\* feed of its terrain.
C20_UnknownTerrain ==
  [][(pc = "mapinit" /\ mapstream # <<>>) =>
       LET value == Head(mapstream)
           coord == coordNext(DOMAIN feed)
       IN /\ value \notin DOMAIN archetypes => (pc' = "maperror" /\ feed' = feed)
          /\ value \in DOMAIN archetypes =>
               /\ pc' = "mapinit"
               /\ DOMAIN feed' = DOMAIN feed \cup {coord}
               /\ feed'[coord] = archetypes[value].maxfeed
               /\ \A c \in DOMAIN feed : feed'[c] = feed[c]]_vars


\* C21: insertAnimal(name, age, weight, x, y) with a name that is no
\* species' name, with (x, y) outside the grid, or with a cell of
\* non-participating terrain at (x, y) returns NULL and changes neither the
\* population nor any resident set nor any animal; otherwise it returns a
\* new animal of that species, age and weight, located in the cell at
\* (x, y), and adds exactly it to the population and to that cell.
C21_InsertAnimal ==
  [][(pc = "init" /\ hist'.op.name = "insertAnimal" /\ pc' = "init") =>
       LET arg  == hist'.asked
           b    == hist'.op.who
           cell == <<arg.x, arg.y>>
           bad  == \/ \A i \in 1..Len(species) : species[i] # arg.name
                   \/ arg.x >= _cols
                   \/ arg.y >= _rows
                   \/ ~archetypes[geo[arg.y + 1][arg.x + 1]].live
       IN /\ bad => /\ ~hist'.op.ret
                    /\ animals' = animals
                    /\ habitants' = habitants
                    /\ obj' = obj
          /\ ~bad => /\ hist'.op.ret
                     /\ b \in Addr \ animals
                     /\ \A c \in Cells : b \notin habitants[c]
                     /\ animals' = animals \cup {b}
                     /\ habitants' = [habitants EXCEPT ![cell] = @ \cup {b}]
                     /\ obj'[b].isa = arg.name
                     /\ obj'[b].alder = arg.alder
                     /\ obj'[b].vekt = arg.vekt
                     /\ obj'[b].loci = cell
                     /\ \A a \in Addr \ {b} : obj'[a] = obj[a]]_vars

\* C21 witness: after a call that placed an animal, a call for a cell of
\* non-participating terrain has returned NULL, the first animal still the
\* only one.
C21_Witness ==
  /\ pc = "init"
  /\ hist.op.name = "insertAnimal"
  /\ ~hist.op.ret
  /\ hist.asked.name \in Range(species)
  /\ <<hist.asked.x, hist.asked.y>> \in Cells \ LiveCells
  /\ Cardinality(animals) = 1
  /\ \E a \in animals : habitants = [c \in Cells |-> IF c = obj[a].loci THEN {a} ELSE {}]


(***************************************************************************)
(* Species::init: the parameter file has been read into the object; the    *)
(* species is classified and, if the file gave no name, named.             *)
(***************************************************************************)
\* What a species file gives for F and for DeltaPhiMax: nothing (the
\* registered default ANIMAL_INV stays), or a value.
FileF == {ANIMAL_INV, 0, 4, 8, 10}
FileDeltaPhiMax == {ANIMAL_INV, 0, 64, 128, 256}
\* What it gives for Navn: nothing (the default ""), or a name.
FileNavn == {"", "B", "R", "W", "Z"}

\* param_reader_.read(params) has returned: F, DeltaPhiMax and name hold
\* what the file gave; predatory has not been set yet.
InitSpecies ==
  /\ thisSpecies \in {SpeciesObject(f, d, n, p) :
                        f \in FileF, d \in FileDeltaPhiMax, n \in FileNavn, p \in BOOLEAN}
  /\ mapstream = <<>>
  /\ archetypesRead = archetypes
  /\ coordCall = NoCoordCall
  /\ param_reader_ = NoReader
  /\ _fullAdrMap = fullAdrMapBuilt
  /\ report = NoReport
  /\ habitants = [c \in Cells |-> {}]
  /\ feed = [c \in Cells |-> CellInit(c)]
  /\ _adrMap = <<>>
  /\ obj = [a \in Addr |-> Zombie]
  /\ animals = {}
  /\ _year = 0
  /\ pc = "specinit"
  /\ iter = End
  /\ cells = <<>>
  /\ it2 = 1
  /\ inCell = FALSE
  /\ habitantsCopy = <<>>
  /\ spIdx = 1
  /\ theseBeasts = <<>>
  /\ largeN = 0
  /\ retval = <<>>
  /\ feedBeasts = <<>>
  /\ fbiter = 1
  /\ hist = NoHist

\* Species::init after the read: F given makes a herbivore, else
\* DeltaPhiMax given makes a predator, else the error is thrown; a species
\* without a name is named R or B.
Species_init ==
  /\ pc = "specinit"
  /\ IF thisSpecies.F # ANIMAL_INV
     THEN /\ thisSpecies' = [thisSpecies EXCEPT
                               !.predatory = FALSE,
                               !.name = IF @ = "" THEN "B" ELSE @]
          /\ pc' = "specready"
     ELSE IF thisSpecies.DeltaPhiMax # ANIMAL_INV
     THEN /\ thisSpecies' = [thisSpecies EXCEPT
                               !.predatory = TRUE,
                               !.name = IF @ = "" THEN "R" ELSE @]
          /\ pc' = "specready"
     ELSE /\ pc' = "specerror"
          /\ UNCHANGED thisSpecies
  /\ UNCHANGED <<mapstream, coordCall, param_reader_, archetypesRead, _fullAdrMap, report, habitants, feed, _adrMap, obj, animals, _year,
                 loopVars, hist>>

NextSpecies == Species_init

SpecSpecies == InitSpecies /\ [][NextSpecies]_vars

\* C22: Species::init ends with the error when the file gave neither F nor
\* DeltaPhiMax; a species it accepts was given exactly one of the two and is
\* a predator exactly when it was given DeltaPhiMax and not F; a file that
\* gave both is not accepted.
C22_Classified ==
  [][pc = "specinit" =>
       LET hasF == thisSpecies.F # ANIMAL_INV
           hasD == thisSpecies.DeltaPhiMax # ANIMAL_INV
       IN /\ (~hasF /\ ~hasD) => pc' = "specerror"
          /\ pc' = "specready" =>
               /\ hasF # hasD
               /\ thisSpecies'.predatory = (hasD /\ ~hasF)
          /\ (hasF /\ hasD) => pc' = "specerror"]_vars


\* A sequence that holds each participating cell exactly once and no other cell.
EachLiveCellOnce(s) == Len(s) = Cardinality(LiveCells) /\ Range(s) = LiveCells

\* C23: _adrMap, and the sequence every mapMap(false) call has returned to
\* step(), hold each participating cell exactly once and no cell of
\* non-participating terrain; such a cell refuses addAnimal and has no
\* resident.
C23_LiveTraversal ==
  /\ EachLiveCellOnce(_adrMap)
  /\ pc \in {"wander", "breed"} => (cells = _adrMap /\ EachLiveCellOnce(cells))
  /\ \A c \in Cells \ LiveCells :
       /\ ~addAnimal(c)
       /\ habitants[c] = {}
       /\ \A i \in 1..Len(_adrMap) : _adrMap[i] # c

\* C23 witness: the breeding loop walks a sequence that is not in the order
\* Map::init built (a later cell of the grid comes first), while the grid
\* has cells of non-participating terrain and animals live in it.
C23_Witness ==
  /\ pc = "breed"
  /\ animals # {}
  /\ Cells \ LiveCells # {}
  /\ \E i, j \in 1..Len(cells) :
       i < j /\ (cells[i][2] > cells[j][2]
                   \/ (cells[i][2] = cells[j][2] /\ cells[i][1] > cells[j][1]))


\* A sequence that holds every cell of the grid exactly once.
EachCellOnce(s) == Len(s) = Cardinality(Cells) /\ Range(s) = Cells

\* C24 as stated: mapMap(true) returns every cell of the grid exactly once,
\* in ascending order of the packed address coordPack(x, y).
C24_PackedOrder ==
  /\ EachCellOnce(mapMap_all(_fullAdrMap))
  /\ \A i, j \in 1..Len(_fullAdrMap) :
       i < j => WordLess(coordPack(_fullAdrMap[i][1], _fullAdrMap[i][2]),
                         coordPack(_fullAdrMap[j][1], _fullAdrMap[j][2]))

\* C24 amended: mapMap(true) returns every cell of the grid exactly once, in
\* every state in the same order, and that order is row by row (ascending
\* y, and ascending x within a row), the order Map::init built the cells
\* in; the .for and .dyr files list the cells in that order.
C24_RowMajor ==
  /\ EachCellOnce(mapMap_all(_fullAdrMap))
  /\ \A i, j \in 1..Len(_fullAdrMap) :
       i < j => \/ _fullAdrMap[i][2] < _fullAdrMap[j][2]
                \/ (_fullAdrMap[i][2] = _fullAdrMap[j][2]
                      /\ _fullAdrMap[i][1] < _fullAdrMap[j][1])
  /\ (pc = "run" /\ report.year > year_begin) =>
       /\ Len(report.for) = Len(_fullAdrMap)
       /\ Len(report.dyr) = Len(_fullAdrMap)
       /\ \A k \in 1..Len(_fullAdrMap) :
            /\ report.for[k] = feed[_fullAdrMap[k]]
            /\ report.dyr[k][1] + report.dyr[k][2] = Cardinality(habitants[_fullAdrMap[k]])

\* C24 witness: a .dyr file has been written that shows animals in its
\* second entry, the cell (1, 0) of the first row, and the grid has more
\* than one row and more than one column.
C24_Witness ==
  /\ pc = "run"
  /\ report.year > year_begin
  /\ _rows > 1 /\ _cols > 1
  /\ report.dyr[2][1] + report.dyr[2][2] > 0
  /\ habitants[<<1, 0>>] # {}


\* C25: a step that writes reports (reportPopulation alone at the start of
\* run(); writeReport_dyr, writeReport_for, writeReport_pop and
\* reportPopulation after a year) changes neither the population, nor any
\* resident set, nor any feed, nor any animal, nor the order of _adrMap and
\* _fullAdrMap; and what is written is a function of the state alone: no
\* draw enters into it.
C25_ReportsPure ==
  [][report' # report =>
       /\ animals' = animals
       /\ habitants' = habitants
       /\ feed' = feed
       /\ obj' = obj
       /\ _adrMap' = _adrMap
       /\ _fullAdrMap' = _fullAdrMap
       /\ report'.dat = reportPopulation(obj, animals, _year')
       /\ pc = "report" =>
            /\ report'.dyr = writeReport_dyr(_fullAdrMap, obj, habitants)
            /\ report'.for = [k \in 1..Len(_fullAdrMap) |-> feed[_fullAdrMap[k]]]
            /\ report'.pop = writeReport_pop(_fullAdrMap, obj, habitants, 1, 1)]_vars

\* C25 witness: the reports of a year have been written with animals alive,
\* a .pop file that lists some, and a cell whose feed is neither 0 nor its
\* maximum.
C25_Witness ==
  /\ pc = "run"
  /\ report.year > year_begin
  /\ animals # {}
  /\ report.pop # <<>>
  /\ \E k \in 1..Len(report.for) :
       /\ report.for[k] > 0
       /\ report.for[k] < archetype(_fullAdrMap[k]).maxfeed
       /\ feed[_fullAdrMap[k]] = report.for[k]


(***************************************************************************)
(* The ageing loop of step() as a function of the state and of the draws   *)
(* it is given, for comparing two executions.                              *)
(***************************************************************************)
\* What an animal is in the simulation: species, age, weight and cell (not
\* the address of its object).
Who(o, a) == [isa |-> o[a].isa, alder |-> o[a].alder, vekt |-> o[a].vekt, loci |-> o[a].loci]

\* The simulation state: how many animals of each description there are,
\* and the feed of every cell.
SimState(o, pop, f) ==
  [beasts |-> {<<Who(o, a), Cardinality({b \in pop : Who(o, b) = Who(o, a)})>> : a \in pop},
   feed   |-> f]

\* The loop `while (iter != animals.end())` of step() from iterator it on,
\* with the draws ds for the death checks that draw: the objects, the
\* resident sets and the population it leaves, and which animal each draw
\* decided about.
RECURSIVE ageingLoop(_, _, _, _, _, _)
ageingLoop(o, h, pop, it, ds, decided) ==
  IF it = End
  THEN [obj |-> o, habitants |-> h, animals |-> pop, decided |-> decided]
  ELSE LET o1    == age(o, it)
           drawn == dieDraws(o1, it) # {0}
           d     == die(o1, h, it, IF drawn THEN Head(ds) ELSE 0)
           rest  == IF drawn THEN Tail(ds) ELSE ds
           dec   == IF drawn THEN Append(decided, Who(o, it)) ELSE decided
       IN IF d[1]
          THEN ageingLoop([d[2] EXCEPT ![it] = Zombie], Animal_delete(d[2], d[3], it),
                          AgeErase(pop, it), SetNext(pop, it), rest, dec)
          ELSE ageingLoop(d[2], d[3], pop, SetNext(pop, it), rest, dec)

\* The ways the same animals can lie in memory: the one-to-one maps of Addr.
Layouts == {p \in [Addr -> Addr] : \A a, b \in Addr : p[a] = p[b] => a = b}

\* The objects, the resident sets and the population with every animal at
\* address p[a] instead of a.
objAt(o, p) == [b \in Addr |-> o[CHOOSE a \in Addr : p[a] = b]]
habitantsAt(h, p) == [c \in Cells |-> {p[a] : a \in h[c]}]
animalsAt(pop, p) == {p[a] : a \in pop}

\* C26: at the start of a yearly step, for every other layout in memory of
\* the same animals (same species, ages, weights and cells) and for every
\* sequence of draws, the ageing loop gives each draw to the same animal and
\* leaves the same simulation state.
C26_Reproducible ==
  (pc = "age" /\ iter = SetBegin(animals) /\ \A a \in Addr : hist.aged[a] = 0) =>
    \A p \in Layouts : \A ds \in [1..Cardinality(animals) -> DrawSet] :
      LET here  == ageingLoop(obj, habitants, animals, SetBegin(animals), ds, <<>>)
          there == ageingLoop(objAt(obj, p), habitantsAt(habitants, p), animalsAt(animals, p),
                              SetBegin(animalsAt(animals, p)), ds, <<>>)
      IN /\ SimState(obj, animals, feed) = SimState(objAt(obj, p), animalsAt(animals, p), feed)
         /\ here.decided = there.decided
         /\ SimState(here.obj, here.animals, feed) = SimState(there.obj, there.animals, feed)


\* C27 as stated: every step that makes checks consumes one drand() value per
\* check, death checks included, and an nrand(4) value exactly when it was a
\* wander check that succeeded.
C27_OneDrawEach ==
  /\ hist.draws.drand = hist.draws.checks
  /\ hist.draws.nrand = (IF hist.draws.check = "wander" /\ hist.draws.ok THEN 1 ELSE 0)

\* C27, amended: every wander check, every breed check and every capture
\* check consumes exactly one drand() value; a death check consumes one when
\* the aged animal has a weight other than 0 and a fitness above 0 and none
\* otherwise; an nrand(4) value is consumed exactly by a wander check that
\* succeeded.
C27_DrawsPerCheck ==
  [][/\ hist'.draws.check \in {"wander", "breed", "capture"} =>
          hist'.draws.drand = hist'.draws.checks
     /\ (pc = "age" /\ iter # End) =>
          /\ hist'.draws.check = "die" /\ hist'.draws.checks = 1
          /\ hist'.draws.drand =
               (IF age(obj, iter)[iter].vekt = 0 \/ fitness(age(obj, iter), iter) <= 0
                THEN 0 ELSE 1)
     /\ (pc = "wander" /\ inCell /\ habitantsCopy # <<>>) =>
          /\ hist'.draws.check = "wander" /\ hist'.draws.checks = 1
          /\ hist'.draws.ok = hist'.op.ret
     /\ (pc = "breed" /\ theseBeasts # <<>>) =>
          hist'.draws.check = "breed" /\ hist'.draws.checks = 1
     /\ (pc = "feed" /\ pc' = "feed") =>
          /\ hist'.draws.check = "capture"
          /\ hist'.draws.checks = Cardinality(hist'.examined)
     /\ hist'.draws.nrand = (IF hist'.draws.check = "wander" /\ hist'.draws.ok THEN 1 ELSE 0)]_vars

\* C27 witness: a death check that consumed no draw, and the animal died.
C27_Witness == hist.draws = Draws("die", 1, 0, 0, TRUE)


\* C28: for every animal and every participating cell B next to its cell A
\* that has A as a neighbour in turn, moveTo(B) takes the animal out of A and
\* into B, a following moveTo(A) takes it out of B and into A again, every
\* other resident set stays as it was, and the resident sets after the two
\* moves are those before them.
C28_RoundTrip ==
  \A a \in animals : \A B \in LiveCells :
    LET A  == obj[a].loci
        m1 == moveTo(obj, habitants, a, B)
        m2 == moveTo(m1[1], m1[2], a, A)
    IN (A \in LiveCells /\ a \in habitants[A] /\ B # A
        /\ B \in Range(neighbours(A)) /\ A \in Range(neighbours(B))) =>
         /\ m1[3] /\ a \notin m1[2][A] /\ a \in m1[2][B]
         /\ m2[3] /\ a \in m2[2][A] /\ a \notin m2[2][B]
         /\ \A c \in Cells \ {A, B} : m1[2][c] = habitants[c] /\ m2[2][c] = habitants[c]
         /\ m1[2][B] \ {a} = habitants[B] /\ m1[2][A] = habitants[A] \ {a}
         /\ m2[2] = habitants
         /\ m1[1][a].loci = B /\ m2[1][a].loci = A

\* C28 witness: the wander pass has moved an animal from (0,0) to (1,0) and,
\* visiting (1,0), back to (0,0) again (nrand(4) gave 0, the left neighbour):
\* it is a resident of the first cell only.
C28_Witness ==
  /\ pc = "wander" /\ inCell /\ cells[it2] = <<1, 0>>
  /\ hist.op.name = "wander" /\ hist.op.ret /\ hist.op.n = 0
  /\ hist.wandered[hist.op.who] = 2
  /\ hist.visited = <<<<0, 0>>, <<1, 0>>>>
  /\ obj[hist.op.who].loci = <<0, 0>>
  /\ hist.op.who \in habitants[<<0, 0>>] /\ hist.op.who \notin habitants[<<1, 0>>]


\* C29: an iteration of the ageing loop raises the animal's age by exactly 1
\* and takes sigma * w from its weight w (the loss is counted in whole units
\* of weight here; the weight is strictly smaller when sigma > 0, w > 0 and
\* the loss is a unit or more), and a survivor keeps that age and weight;
\* when the step has ended, every animal alive that was not born in the step
\* was alive at its start and is exactly 1 older than it was then, and every
\* animal born in the step has age 0.
C29_Ageing ==
  [][/\ (pc = "age" /\ iter # End) =>
          LET p  == speciesPar[obj[iter].isa]
              w  == obj[iter].vekt
              o1 == age(obj, iter)
          IN /\ o1[iter].alder = obj[iter].alder + 1
             /\ o1[iter].vekt = w - (p.sigmaN * w) \div p.sigmaD
             /\ (p.sigmaN * w) % p.sigmaD = 0 => p.sigmaD * o1[iter].vekt = (p.sigmaD - p.sigmaN) * w
             /\ (p.sigmaN > 0 /\ w > 0 /\ p.sigmaN * w >= p.sigmaD) => o1[iter].vekt < w
             /\ o1[iter].vekt <= w
             /\ iter \in animals' =>
                  /\ obj'[iter].alder = o1[iter].alder
                  /\ obj'[iter].vekt = o1[iter].vekt
             /\ hist'.aged[iter] = hist.aged[iter] + 1
     /\ pc' = "report" =>
          \A a \in animals' :
            IF a \in hist'.born
            THEN obj'[a].alder = 0
            ELSE /\ a \in hist'.yearStart
                 /\ hist'.aged[a] = 1
                 /\ obj'[a].alder = hist'.alderStart[a] + 1]_vars

\* C29 witness: a step has ended with an animal that was there at its start,
\* now a year older, and with an animal born in the step, of age 0.
C29_Witness ==
  /\ pc = "report"
  /\ \E a \in animals \ hist.born : \E b \in animals \cap hist.born :
       /\ a \in hist.yearStart /\ obj[a].alder = hist.alderStart[a] + 1
       /\ obj[b].alder = 0


(***************************************************************************)
(* Map::initSpec: the terrain types are read from a cells.spec file, the   *)
(* map is built from the .geo file, and cells regrow and are grazed.       *)
(***************************************************************************)
\* The lines a cells.spec file can hold for a terrain code: alpha 0 or 1/2,
\* a maximum feed of 0 or of a herbivore's appetite, participating or not.
SpecLines(ch) ==
  {ArchCell(ch, aN, 2, mf, l) : aN \in {0, 1}, mf \in {0, speciesPar["B"].F}, l \in BOOLEAN}

\* Cell::archetype of the cell at c, with the types initSpec has read.
archetypeRead(c) == archetypesRead[geo[c[2] + 1][c[1] + 1]]

\* initSpec has opened the file, which has a line for each code of the .geo
\* file; no terrain type and no cell yet.
InitTerrain ==
  /\ mapstream \in {<<j, o, h, f>> : j \in SpecLines("J"), o \in SpecLines("O"),
                                     h \in SpecLines("H"), f \in SpecLines("F")}
  /\ archetypesRead = <<>>
  /\ coordCall = NoCoordCall
  /\ param_reader_ = NoReader
  /\ thisSpecies = NoSpecies
  /\ _fullAdrMap = <<>>
  /\ report = NoReport
  /\ habitants = <<>>
  /\ feed = <<>>
  /\ _adrMap = <<>>
  /\ obj = [a \in Addr |-> Zombie]
  /\ animals = {}
  /\ _year = 0
  /\ pc = "archinit"
  /\ iter = End
  /\ cells = <<>>
  /\ it2 = 1
  /\ inCell = FALSE
  /\ habitantsCopy = <<>>
  /\ spIdx = 1
  /\ theseBeasts = <<>>
  /\ largeN = 0
  /\ retval = <<>>
  /\ feedBeasts = <<>>
  /\ fbiter = 1
  /\ hist = NoHist

\* One iteration of the loop of initSpec: a line is read and its terrain
\* type stored under its name.
initSpec ==
  /\ pc = "archinit"
  /\ mapstream # <<>>
  /\ archetypesRead' = (Head(mapstream).name :> Head(mapstream)) @@ archetypesRead
  /\ mapstream' = Tail(mapstream)
  /\ UNCHANGED <<coordCall, param_reader_, thisSpecies, _fullAdrMap, report, habitants, feed, _adrMap, obj, animals,
                 _year, pc, loopVars, hist>>

\* Map::init after initSpec: every cell is built with its terrain's maximum
\* feed, and the participating ones are entered into _adrMap.
Map_init ==
  /\ pc = "archinit"
  /\ mapstream = <<>>
  /\ feed' = [c \in Cells |-> archetypeRead(c).maxfeed]
  /\ habitants' = [c \in Cells |-> {}]
  /\ _fullAdrMap' = fullAdrMapBuilt
  /\ _adrMap' = SelectSeq(fullAdrMapBuilt, LAMBDA c : archetypeRead(c).live)
  /\ pc' = "archready"
  /\ UNCHANGED <<mapstream, coordCall, param_reader_, archetypesRead, thisSpecies, report, obj, animals, _year, loopVars, hist>>

\* Cell::regrow() on a participating cell, as the wander pass calls it.
Cell_regrow ==
  /\ pc = "archready"
  /\ \E c \in Range(_adrMap) :
       /\ feed' = [feed EXCEPT ![c] = Arch_regrow(archetypeRead(c), @)]
       /\ cells' = <<c>>
  /\ hist' = [hist EXCEPT !.op = Op("regrow", 0, 0, 0, 0, FALSE)]
  /\ UNCHANGED <<mapstream, coordCall, param_reader_, archetypesRead, thisSpecies, _fullAdrMap, report, habitants, _adrMap, obj, animals,
                 _year, pc, iter, it2, inCell, habitantsCopy, spIdx, theseBeasts, largeN,
                 retval, feedBeasts, fbiter>>

\* Cell::graze(F) on a participating cell, as a herbivore's feed() calls it.
Cell_graze ==
  /\ pc = "archready"
  /\ \E c \in Range(_adrMap) :
       /\ feed' = [feed EXCEPT ![c] = graze(@, speciesPar["B"].F)[2]]
       /\ cells' = <<c>>
  /\ hist' = [hist EXCEPT !.op = Op("graze", 0, 0, 0, 0, FALSE)]
  /\ UNCHANGED <<mapstream, coordCall, param_reader_, archetypesRead, thisSpecies, _fullAdrMap, report, habitants, _adrMap, obj, animals,
                 _year, pc, iter, it2, inCell, habitantsCopy, spIdx, theseBeasts, largeN,
                 retval, feedBeasts, fbiter>>

NextTerrain ==
  \/ initSpec
  \/ Map_init
  \/ Cell_regrow
  \/ Cell_graze

SpecTerrain == InitTerrain /\ [][NextTerrain]_vars

\* C30: a regrow() replaces the cell's feed f by f + alpha * (maxfeed - f)
\* and leaves every other cell's feed alone; on a cell whose terrain has
\* alpha = 0 it changes nothing; and once the map is built the feed of every
\* cell whose terrain has alpha = 0 is 0.
C30_Regrow ==
  [][/\ (pc = "archready" /\ hist'.op.name = "regrow") =>
          LET c == cells'[1]
              t == archetypeRead(c)
          IN /\ t.alphaD * feed'[c] = t.alphaD * feed[c] + t.alphaN * (t.maxfeed - feed[c])
                  - ((t.alphaN * (t.maxfeed - feed[c])) % t.alphaD)
             /\ \A d \in Cells \ {c} : feed'[d] = feed[d]
             /\ t.alphaN = 0 => feed' = feed
     /\ pc' = "archready" =>
          \A c \in Cells : archetypeRead(c)'.alphaN = 0 => feed'[c] = 0]_vars


\* C31: the fitness cache of every animal object is either the invalid
\* marker or the species fitness of the animal's current weight and age.
C31_CacheFresh ==
  \A a \in Addr :
    (obj[a].isa # "" /\ obj[a].fitness # ANIMAL_INV) =>
      obj[a].fitness = Species_fitness(obj[a].isa, obj[a].vekt, obj[a].alder)

\* C31 witness: in the feeding pass an animal that has been aged, has had
\* its fitness queried and has fed since stands with an emptied cache next to
\* one whose cache is filled.
C31_Witness ==
  /\ pc = "feed"
  /\ \E a, b \in animals :
       /\ hist.aged[a] = 1 /\ hist.aged[b] = 1
       /\ \E i \in 1..Len(hist.turns) : hist.turns[i] = a
       /\ hist.fitAtStart[a] > 0
       /\ obj[a].fitness = ANIMAL_INV
       /\ obj[b].fitness # ANIMAL_INV /\ obj[b].fitness > 0


\* C32: throughout a cell's visit in the wander pass, the animals whose
\* wander() the visit has called and those still waiting in the copy are
\* together exactly the residents the cell had when the visit started, each
\* of them once; so when the copy is exhausted every one of them has made
\* exactly one attempt in the visit and nobody else has.
C32_VisitOnce ==
  (pc = "wander" /\ inCell) =>
    LET v == hist.visit IN
    /\ Range(v.tried) \cup Range(habitantsCopy) = v.start
    /\ Len(v.tried) + Len(habitantsCopy) = Cardinality(v.start)
    /\ habitantsCopy = <<>> =>
         \A a \in Addr :
           Cardinality({i \in 1..Len(v.tried) : v.tried[i] = a}) = (IF a \in v.start THEN 1 ELSE 0)

\* C32 witness: a visit has made all its attempts; of the two residents it
\* started with, one has moved to another cell and the other has wandered
\* and is in the visited cell still.
C32_Witness ==
  /\ pc = "wander" /\ inCell /\ habitantsCopy = <<>>
  /\ Cardinality(hist.visit.start) = 2
  /\ \E a, b \in hist.visit.start :
       /\ obj[a].loci # cells[it2] /\ a \notin habitants[cells[it2]]
       /\ hist.op.who = b /\ hist.op.ret /\ obj[b].loci = cells[it2]


\* C33: within a step a cell is regrown only in the wander pass, when the
\* visit of that very cell has called wander() on all the residents it
\* started with, and
\* only if it is a participating cell not yet regrown this year; no breeding
\* decision and no feeding turn is made before the wander pass is over, and
\* from then to the end of the step every participating cell has been
\* regrown exactly once and no other cell at all.
C33_RegrowOnce ==
  [][/\ (pc # "run" /\ hist'.regrown # hist.regrown) =>
          /\ pc = "wander" /\ inCell /\ habitantsCopy = <<>>
          /\ Range(hist.visit.tried) = hist.visit.start
          /\ hist.visit.start = habitants[cells[it2]] \cup {a \in hist.visit.start : obj[a].loci # cells[it2]}
          /\ cells[it2] \in LiveCells /\ hist.regrown[cells[it2]] = 0
          /\ hist'.regrown = [hist.regrown EXCEPT ![cells[it2]] = 1]
          /\ feed' = [feed EXCEPT ![cells[it2]] = regrow(cells[it2], @)]
     /\ pc' \in {"age", "wander"} =>
          /\ \A a \in Addr : hist'.bred[a] = 0
          /\ hist'.turns = <<>> /\ hist'.born = {}
     /\ pc' \in {"breed", "feed", "report"} =>
          \A c \in Cells : hist'.regrown[c] = (IF c \in LiveCells THEN 1 ELSE 0)]_vars

\* C33 witness: the feeding pass is under way after a breeding decision, and
\* each of the two participating cells has been regrown once, the jungle
\* cell after a resident of it made its attempt.
C33_Witness ==
  /\ pc = "feed" /\ hist.turns # <<>>
  /\ \E a \in Addr : hist.bred[a] > 0 /\ hist.wandered[a] > 0
  /\ \A c \in Cells : hist.regrown[c] = (IF c \in LiveCells THEN 1 ELSE 0)
  /\ Cardinality(LiveCells) = 2


\* C34: in the ageing loop an animal whose weight after age() is below its
\* species' v_min has fitness 0, consumes no draw and is taken out of the
\* population by that iteration; and when the loop is left every animal of
\* the population has a weight of v_min or more, and not 0.
C34_Viable ==
  [][/\ (pc = "age" /\ iter # End) =>
          LET o1 == age(obj, iter) IN
          o1[iter].vekt < speciesPar[o1[iter].isa].v_min =>
            /\ fitness(o1, iter) = 0
            /\ \A u \in DrawProbe : die(o1, habitants, iter, u)[1]
            /\ hist'.draws = Draws("die", 1, 0, 0, TRUE)
            /\ iter \notin animals'
            /\ \A c \in Cells : iter \notin habitants'[c]
     /\ (pc = "age" /\ pc' = "wander") =>
          \A a \in animals' :
            /\ obj'[a].vekt >= speciesPar[obj'[a].isa].v_min
            /\ obj'[a].vekt # 0]_vars

\* C34 witness: the ageing loop has just been left with survivors, the last
\* animal it checked having died below the minimum weight without a draw.
C34_Witness ==
  /\ pc = "wander" /\ ~inCell /\ hist.visited = <<>>
  /\ hist.draws = Draws("die", 1, 0, 0, TRUE)
  /\ hist.died # {} /\ animals # {}
  /\ \A a \in animals : obj[a].vekt >= speciesPar[obj[a].isa].v_min


\* The feed granted in cell c by the first n graze() calls of the pass.
RECURSIVE GrantedIn(_, _, _)
GrantedIn(gs, c, n) ==
  IF n = 0 THEN 0
  ELSE GrantedIn(gs, c, n - 1) + (IF gs[n].cell = c THEN gs[n].got ELSE 0)

\* C35: throughout a feeding pass, for every cell, the feed granted to the
\* herbivores that have fed in it is exactly what the cell's feed has gone
\* down by since the pass began, and no more than it held then; a herbivore
\* that was granted less than its F left its cell with feed 0, and every
\* herbivore feeding in that cell after it was granted 0.
C35_Grants ==
  pc \in {"feed", "report"} =>
    LET gs == hist.grants IN
    /\ \A c \in Cells :
         /\ GrantedIn(gs, c, Len(gs)) = hist.feedStart[c] - feed[c]
         /\ GrantedIn(gs, c, Len(gs)) <= hist.feedStart[c]
    /\ \A i \in 1..Len(gs) :
         /\ gs[i].got >= 0 /\ gs[i].got <= gs[i].want
         /\ gs[i].got < gs[i].want =>
              /\ hist.feedStart[gs[i].cell] - GrantedIn(gs, gs[i].cell, i) = 0
              /\ \A j \in (i + 1)..Len(gs) : gs[j].cell = gs[i].cell => gs[j].got = 0

\* C35 witness: three herbivores have fed in the jungle cell: the first got
\* its F, the second what was left, the third nothing.
C35_Witness ==
  /\ pc = "feed" /\ Len(hist.grants) = 3
  /\ \A i \in 1..3 : hist.grants[i].cell = <<0, 0>>
  /\ hist.grants[1].got = hist.grants[1].want
  /\ 0 < hist.grants[2].got /\ hist.grants[2].got < hist.grants[2].want
  /\ hist.grants[3].got = 0
  /\ feed[<<0, 0>>] = 0


(***************************************************************************)
(* coordPack and coordUnpack called on a pair of coordinates.              *)
(***************************************************************************)
\* The coordinates supplied: the least, the greatest that fit 16 bits, the
\* first that do not, and the greatest of a signed int.
PackProbe == {0, 1, 2, 255, 256, 32767, 32768, 65534, 65535, 65536, 65537, 131071, 2147483647}

InitPack ==
  /\ \E x \in PackProbe, y \in PackProbe : coordCall = CoordCall(x, y, Word(0, 0), 0, 0)
  /\ param_reader_ = NoReader
  /\ mapstream = <<>>
  /\ archetypesRead = archetypes
  /\ thisSpecies = NoSpecies
  /\ _fullAdrMap = fullAdrMapBuilt
  /\ report = NoReport
  /\ habitants = [c \in Cells |-> {}]
  /\ feed = [c \in Cells |-> CellInit(c)]
  /\ _adrMap = SelectSeq(fullAdrMapBuilt, LAMBDA c : c \in LiveCells)
  /\ obj = [a \in Addr |-> Zombie]
  /\ animals = {}
  /\ _year = 0
  /\ pc = "pack"
  /\ iter = End
  /\ cells = <<>>
  /\ it2 = 1
  /\ inCell = FALSE
  /\ habitantsCopy = <<>>
  /\ spIdx = 1
  /\ theseBeasts = <<>>
  /\ largeN = 0
  /\ retval = <<>>
  /\ feedBeasts = <<>>
  /\ fbiter = 1
  /\ hist = NoHist

\* coord = coordPack(x, y).
Pack ==
  /\ pc = "pack"
  /\ coordCall' = [coordCall EXCEPT !.coord = coordPack(coordCall.x, coordCall.y)]
  /\ pc' = "packed"
  /\ UNCHANGED <<mapstream, param_reader_, archetypesRead, thisSpecies, _fullAdrMap, report, habitants, feed, _adrMap, obj, animals,
                 _year, loopVars, hist>>

\* coordUnpack(coord, x, y) on the packed word.
Unpack ==
  /\ pc = "packed"
  /\ coordCall' = [coordCall EXCEPT !.x_out = coordUnpack(coordCall.coord)[1],
                                    !.y_out = coordUnpack(coordCall.coord)[2]]
  /\ pc' = "unpacked"
  /\ UNCHANGED <<mapstream, param_reader_, archetypesRead, thisSpecies, _fullAdrMap, report, habitants, feed, _adrMap, obj, animals,
                 _year, loopVars, hist>>

NextPack ==
  \/ Pack
  \/ Unpack

SpecPack == InitPack /\ [][NextPack]_vars

\* C36: for x and y of at most 65535, unpacking the packed word gives x and
\* y back, and no other pair of such coordinates packs to the same word; for
\* x or y above 65535 unpacking gives another pair than (x, y), one that
\* fits 16 bits and packs to the same word.
C36_PackRoundTrip ==
  LET x == coordCall.x
      y == coordCall.y
      fits == x <= 65535 /\ y <= 65535
  IN /\ pc = "packed" =>
          /\ coordCall.coord.hi \in 0..65535 /\ coordCall.coord.lo \in 0..65535
          /\ fits => \A x2, y2 \in {v \in PackProbe : v <= 65535} :
                       coordPack(x2, y2) = coordCall.coord => (x2 = x /\ y2 = y)
     /\ pc = "unpacked" =>
          /\ fits => (coordCall.x_out = x /\ coordCall.y_out = y)
          /\ ~fits => /\ <<coordCall.x_out, coordCall.y_out>> # <<x, y>>
                      /\ coordCall.x_out <= 65535 /\ coordCall.y_out <= 65535
                      /\ coordPack(coordCall.x_out, coordCall.y_out) = coordCall.coord

\* C36 witness: the greatest 16-bit coordinates have been packed into the
\* word 0xFFFFFFFF and unpacked again.
C36_Witness ==
  /\ pc = "unpacked"
  /\ coordCall = CoordCall(65535, 65535, Word(65535, 65535), 65535, 65535)


(***************************************************************************)
(* Simulation::run as a running program: once the program can take a step *)
(* of run() or of step() it takes one.  The population files are read      *)
(* before run() is called, and reading them may stop at any point.         *)
(***************************************************************************)
RunSteps ==
  \/ Run
  \/ StepBegin
  \/ RunEnd
  \/ AgeDie
  \/ AgePassEnd
  \/ CellWander
  \/ AnimalWander
  \/ Regrow
  \/ WanderPassEnd
  \/ BreedSpecies
  \/ BreedAnimal
  \/ BreedCellEnd
  \/ BreedPassEnd
  \/ FeedTurn
  \/ StaleTurn
  \/ Crash
  \/ StepEnd
  \/ WriteReports

SpecRun == Spec /\ WF_vars(RunSteps)

\* The pool of addresses is used up while an animal is about to breed: the
\* run is not followed further (operator new has no such limit).
PoolExhausted == pc = "breed" /\ theseBeasts # <<>> /\ FreeAddr = {}

\* C37: run() comes to its end, having made exactly
\* max(0, year_end - year_begin + 1) calls of step(), with the year counter
\* at year_begin plus that number.
C37_RunTerminates ==
  <>(\/ /\ pc = "done"
        /\ hist.steps = (IF year_end >= year_begin THEN year_end - year_begin + 1 ELSE 0)
        /\ _year = year_begin + hist.steps
     \/ PoolExhausted)


(***************************************************************************)
(* toolbox::ReadParameters::read: the parameter file is read whole into    *)
(* the tokens, and the targets are written only after that.                *)
(***************************************************************************)

\* The longest parameter file, in lines.
MaxLines == 3

\* The most read() calls made on one reader.
MaxReads == 2

\* The lines a parameter file is made of: a name and the word after it. "%"
\* is a comment line, "zz" a name that was never registered.
ParamLines ==
  ({"a", "b", "l"} \X {1, 2, Unparsable}) \cup {<<"zz", 1>>, <<"%", 0>>}

\* The parameter files.
ParamFiles == UNION {[1..n -> ParamLines] : n \in 0..MaxLines}

\* skip_comment: comment lines are gobbled up to the first line that is
\* not a comment, or to the end of the file.
RECURSIVE skip_comment(_)
skip_comment(lines) ==
  IF lines # <<>> /\ Head(lines)[1] = "%" THEN skip_comment(Tail(lines)) ELSE lines

\* PlainToken::is_ready and ListToken::is_ready.
is_ready(tok) ==
  IF tok.list
    THEN tok.min_sz_ <= Len(tok.container_) /\ Len(tok.container_) <= tok.max_sz_
    ELSE tok.has_default_ \/ tok.read_

\* PlainToken::reset and ListToken::reset.
reset(tok) ==
  IF tok.list
    THEN [tok EXCEPT !.container_ = <<>>]
    ELSE [tok EXCEPT !.value_ = tok.default_, !.read_ = FALSE]

\* ReadParameters::reset_: every token is reset.
reset_(parameters) == [n \in DOMAIN parameters |-> reset(parameters[n])]

\* PlainToken::read and ListToken::read on the word that follows the name:
\* the tokens the call can leave, each with whether it threw. A failed
\* extraction leaves value_ as it was or zeroed, as the library does.
Token_read(tok, word) ==
  IF tok.list
    THEN IF Len(tok.container_) >= tok.max_sz_ \/ word = Unparsable
           THEN {[thrown |-> TRUE, tok |-> tok]}
           ELSE {[thrown |-> FALSE, tok |-> [tok EXCEPT !.container_ = Append(@, word)]]}
    ELSE IF tok.read_
           THEN {[thrown |-> TRUE, tok |-> tok]}
           ELSE IF word = Unparsable
                  THEN {[thrown |-> TRUE, tok |-> [tok EXCEPT !.value_ = v]] : v \in {tok.value_, 0}}
                  ELSE {[thrown |-> FALSE, tok |-> [tok EXCEPT !.value_ = word, !.read_ = TRUE]]}

\* PlainToken::write_target and ListToken::write_target: what is assigned
\* to the target.
write_target(tok) == IF tok.list THEN tok.container_ ELSE tok.value_

\* A write_target_ that writes the tokens that are ready and throws for the
\* others.
write_target__eager(parameters, target) ==
  [thrown |-> \E n \in DOMAIN parameters : ~is_ready(parameters[n]),
   target |-> [n \in DOMAIN parameters |->
                 IF is_ready(parameters[n]) THEN write_target(parameters[n]) ELSE target[n]]]

\* ReadParameters::write_target_: throws when some token is not ready, and
\* writes every target otherwise.
write_target_(parameters, target) ==
  IF \A n \in DOMAIN parameters : is_ready(parameters[n])
    THEN [thrown |-> FALSE, target |-> [n \in DOMAIN parameters |-> write_target(parameters[n])]]
    ELSE [thrown |-> TRUE, target |-> target]

\* A reader on which read() has not been called yet.
InitRead ==
  /\ mapstream = <<>>
  /\ archetypesRead = archetypes
  /\ coordCall = NoCoordCall
  /\ param_reader_ = NoReader
  /\ thisSpecies = NoSpecies
  /\ _fullAdrMap = fullAdrMapBuilt
  /\ report = NoReport
  /\ habitants = [c \in Cells |-> {}]
  /\ feed = [c \in Cells |-> CellInit(c)]
  /\ _adrMap = SelectSeq(fullAdrMapBuilt, LAMBDA c : c \in LiveCells)
  /\ obj = [a \in Addr |-> Zombie]
  /\ animals = {}
  /\ _year = year_begin
  /\ pc = "idle"
  /\ iter = End
  /\ cells = <<>>
  /\ it2 = 1
  /\ inCell = FALSE
  /\ habitantsCopy = <<>>
  /\ spIdx = 1
  /\ theseBeasts = <<>>
  /\ largeN = 0
  /\ retval = <<>>
  /\ feedBeasts = <<>>
  /\ fbiter = 1
  /\ hist = NoHist

\* read(fname) is entered: the tokens are reset and the file is opened; when
\* it cannot be opened read throws.
ReadOpen ==
  /\ pc \in {"idle", "read_ok", "read_failed"}
  /\ hist.reads < MaxReads
  /\ \E canOpen \in BOOLEAN, f \in ParamFiles :
       /\ canOpen \/ f = <<>>
       /\ param_reader_' = [param_reader_ EXCEPT !.parameters_ = reset_(@),
                                                 !.istrm = Stream(canOpen, f)]
       /\ pc' = IF canOpen THEN "reading" ELSE "read_failed"
       /\ hist' = [hist EXCEPT !.reads = @ + 1,
                               !.file = f,
                               !.targetStart = param_reader_.target]
  /\ UNCHANGED <<mapstream, coordCall, archetypesRead, thisSpecies, _fullAdrMap, report, habitants, feed, _adrMap, obj, animals,
                 _year, loopVars>>

\* One turn of the loop of read(): the comments are skipped and a name is
\* read; an unknown name throws, and so does the token's read().
ReadParam ==
  /\ pc = "reading"
  /\ skip_comment(param_reader_.istrm.lines) # <<>>
  /\ LET lines == skip_comment(param_reader_.istrm.lines)
         pname == Head(lines)[1]
         word  == Head(lines)[2]
     IN  IF pname \notin DOMAIN param_reader_.parameters_
           THEN /\ param_reader_' = [param_reader_ EXCEPT !.istrm.lines = lines]
                /\ pc' = "read_failed"
           ELSE \E r \in Token_read(param_reader_.parameters_[pname], word) :
                  /\ param_reader_' = [param_reader_ EXCEPT !.parameters_[pname] = r.tok,
                                                            !.istrm.lines = Tail(lines)]
                  /\ pc' = IF r.thrown THEN "read_failed" ELSE "reading"
  /\ UNCHANGED <<mapstream, coordCall, archetypesRead, thisSpecies, _fullAdrMap, report, habitants, feed, _adrMap, obj, animals,
                 _year, loopVars, hist>>

\* The end of the file: write_target_() writes the targets or throws.
ReadWrite ==
  /\ pc = "reading"
  /\ skip_comment(param_reader_.istrm.lines) = <<>>
  /\ LET w == write_target_(param_reader_.parameters_, param_reader_.target)
     IN  /\ param_reader_' = [param_reader_ EXCEPT !.istrm.lines = <<>>, !.target = w.target]
         /\ pc' = IF w.thrown THEN "read_failed" ELSE "read_ok"
  /\ UNCHANGED <<mapstream, coordCall, archetypesRead, thisSpecies, _fullAdrMap, report, habitants, feed, _adrMap, obj, animals,
                 _year, loopVars, hist>>

NextRead ==
  \/ ReadOpen
  \/ ReadParam
  \/ ReadWrite

SpecRead == InitRead /\ [][NextRead]_vars

\* How many lines of the file name the parameter.
Named(f, n) == Cardinality({i \in DOMAIN f : f[i][1] = n})

\* The file names an unknown parameter, repeats a plain parameter, leaves a
\* plain parameter without value and without default, or gives a list
\* fewer or more elements than its limits allow.
Incomplete(f) ==
  \/ \E i \in DOMAIN f : f[i][1] \notin DOMAIN Registered \cup {"%"}
  \/ \E n \in DOMAIN Registered :
       IF Registered[n].list
         THEN Named(f, n) < Registered[n].min_sz_ \/ Named(f, n) > Registered[n].max_sz_
         ELSE Named(f, n) > 1 \/ (Named(f, n) = 0 /\ ~Registered[n].has_default_)

\* C38: read() is all-or-nothing for its targets. While it reads, and when
\* it has failed, every target is what it was when read() was entered; a
\* file that names an unknown parameter, repeats a plain one, leaves one
\* without value and default or gives a list outside its limits makes it
\* fail; and when it succeeds every token is ready and every target holds
\* its token's value.
C38_AllOrNothing ==
  /\ pc \in {"reading", "read_failed"} => param_reader_.target = hist.targetStart
  /\ pc \in {"read_ok", "read_failed"} /\ Incomplete(hist.file) => pc = "read_failed"
  /\ pc = "read_ok" =>
       \A n \in DOMAIN param_reader_.parameters_ :
         /\ is_ready(param_reader_.parameters_[n])
         /\ param_reader_.target[n] = write_target(param_reader_.parameters_[n])

\* C38 witness: a second read() has failed at the end of its file, with "a"
\* read and the list left empty, after a first one that had written the
\* targets.
C38_Witness ==
  /\ pc = "read_failed"
  /\ hist.reads = 2
  /\ param_reader_.istrm.lines = <<>>
  /\ param_reader_.parameters_["a"].read_
  /\ ~is_ready(param_reader_.parameters_["l"])
  /\ hist.targetStart # NoTargets
  /\ param_reader_.target["a"] # param_reader_.parameters_["a"].value_

=============================================================================
